---- MODULE Spec2Model ----
(***************************************************************************)
(* Model of the folder watcher of folder_monitoring:                       *)
(*   src/src/monitor/monitor.py      monitor_folder and its helpers        *)
(*   src/src/image/image.py          preview                               *)
(*   src/src/database/db_operations.py   the three tables and their calls  *)
(* The file system and the store are the environment: files appear, are    *)
(* touched and removed at any time, and every store call may fail.         *)
(***************************************************************************)
EXTENDS Integers, Sequences, FiniteSets, TLC

\* ------------------------------------------------------------------ bounds
MaxMtime == 2       \* modification times are 1..MaxMtime
MaxEvents == 3      \* events of the environment per run: a file touched or
                    \* removed, a failure (store, decode, render, file
                    \* system), a signal

\* ------------------------------------------------------- the watched tree
\* A path is named by a string; Segs gives its segments below the watch
\* root, each segment split at its dots ("" before a leading dot).
Files == {"a/x.png", "a/.h.png", "a/s.1/y.tif"}

SubDirs == {"a", "a/s.1"}

Segs(p) ==
    CASE p = "a/x.png"   -> << <<"a">>, <<"x", "png">> >>
      [] p = "a/.h.png"  -> << <<"a">>, <<"", "h", "png">> >>
      [] p = "a/s.1/y.tif" -> << <<"a">>, <<"s", "1">>, <<"y", "tif">> >>
      [] p = "a"         -> << <<"a">> >>
      [] p = "a/s.1"     -> << <<"a">>, <<"s", "1">> >>
      [] OTHER           -> << >>

\* os.path.dirname of a file below the root ("." is the root itself)
dirname(f) ==
    CASE f = "a/x.png"   -> "a"
      [] f = "a/.h.png"  -> "a"
      [] f = "a/s.1/y.tif" -> "a/s.1"
      [] OTHER           -> "."

\* the order in which os.walk yields the roots (top-down)
WalkOrder == <<".", "a", "a/s.1">>

\* dirs of one os.walk triple
WalkDirs(root) ==
    CASE root = "." -> <<"a">>
      [] root = "a" -> <<"a/s.1">>
      [] OTHER      -> << >>

\* candidate files of one os.walk triple, in listing order
WalkFiles(root) ==
    CASE root = "a"   -> <<"a/x.png", "a/.h.png">>
      [] root = "a/s.1" -> <<"a/s.1/y.tif">>
      [] OTHER        -> << >>

\* a filter that tests the path from the watch root instead of the file name
startswith_dot_of_path(f) == LET segs == Segs(f) IN segs[1][1] = ""

\* file.startswith('.')
startswith_dot(f) == LET segs == Segs(f) IN segs[Len(segs)][1] = ""

\* ext = arch.split('.')[-1].lower()
ext(f) == LET segs == Segs(f) last == segs[Len(segs)] IN last[Len(last)]

\* name = arch.replace(folder_path,'').replace('\\','/').split('.')[0].split('/')[-1]
\* : the text before the first dot of the relative path, then its last segment
RECURSIVE FirstDotted(_, _)
FirstDotted(segs, i) ==
    IF i > Len(segs) THEN Len(segs)
    ELSE IF Len(segs[i]) > 1 THEN i
    ELSE FirstDotted(segs, i + 1)

preview_name(f) ==
    LET segs == Segs(f) IN segs[FirstDotted(segs, 1)][1]

\* output_path = f'{folder_destiny}/{name}.jpeg', folder_destiny being
\* DESTINATION joined with the file's relative directory
output_path(f) == <<dirname(f), preview_name(f), "jpeg">>

None == 0 - 1       \* the not-found marker (Python None) of files_dict
NoId == 0           \* get_directory_id's None
NoPath == <<>>      \* preview_filename None
NoRun == [outcome |-> "NONE", mt |-> 0]    \* no pipeline run yet
NoJanitor == << >>  \* clean.py is not part of the behaviour

VARIABLES
    mtime,            \* file system: file -> 0 (absent) or its mtime
    previews,         \* file system: the preview files that were written
    graphs,           \* table graphs: sequence of [id, path]
    graphs_children,  \* table graphs_children: sequence of rows
    logs_script,      \* table logs_script: sequence of messages
    pc,               \* "down" (not started, or left by sys.exit(0)), "sleep",
                      \* "process", "crashed" (an exception of a pass left
                      \* monitor_folder), "interrupted" (one of the handler did)
    files_dict,       \* watch state: file -> mtime or None
    seen_directories, \* watch state: set of directories
    updated_files,    \* the pass's emitted files: sequence of [file_path, mt]
    pos,              \* position of the processing loop in updated_files
    next_id,          \* uuid.uuid4(): the next fresh identifier
    events,           \* events of the environment so far
    runs,             \* history: file -> [outcome, mt] of its last pipeline
                      \* run in this process
    dir_calls,        \* history: [path, id] of the last two calls of
                      \* ensure_directory_registered that returned
    startup,          \* history: <<[force, mtime]>> from the start of
                      \* monitor_folder to its first walk, << >> otherwise
    scan,             \* history: the store and the tree as a forced start
                      \* found them, kept until the second pass begins
    main_pc,          \* main(): "start", "returned", "handled" (returned
                      \* after its except clause), "escaped" (an exception
                      \* left it after its except clause was entered),
                      \* "shutdown_raised" (the one of log_shutdown left it
                      \* after a try block without exception)
    connected_clients, \* socket.py: client id -> websocket
    handlers,         \* the running websocket_handler coroutines:
                      \* websocket -> [client, open]
    pending,          \* the pending downloads kept by save_download_pending
    delivered,        \* the messages sent over websockets
    threads,          \* the handle_zip_creation threads that were started
    zips,             \* the ZIP files on disk
    exchange,         \* history: the last request handled by do_GET with
                      \* what was done for it, << >> before the first
    requests,         \* requests handled so far
    config,           \* config.py: which of DOWNLOAD_URL and LOG_URL are set
    input,            \* the arguments of a call of a function checked alone
    output,           \* ... and its result, << >> before the call
    janitor           \* clean.py: the clock, the entries of ZIP_PATH, the
                      \* scheduled task and what its last run did

vars == <<mtime, previews, graphs, graphs_children, logs_script, pc,
          files_dict, seen_directories, updated_files, pos,
          next_id, events, runs, dir_calls, startup, scan,
          main_pc, connected_clients, handlers, pending, delivered, threads,
          zips, exchange, requests, config, input, output, janitor>>

fs == <<mtime, previews>>
store == <<graphs, graphs_children, logs_script, next_id>>
watch == <<files_dict, seen_directories, updated_files, pos>>
history == <<runs, dir_calls, startup, scan>>
\* the state of monitor_folder with its tables and its tree
monitor == <<fs, graphs, graphs_children, next_id, pc, watch, events, history>>
\* the state of the HTTP and WebSocket servers
server == <<connected_clients, handlers, pending, delivered, threads, zips,
            exchange, requests, config>>
\* all that monitor_folder leaves alone
outside == <<main_pc, server, input, output, janitor>>

InitMonitor ==
    /\ mtime = [f \in Files |-> 0]
    /\ previews = {}
    /\ graphs = << >>
    /\ graphs_children = << >>
    /\ logs_script = << >>
    /\ pc = "down"
    /\ files_dict = << >>
    /\ seen_directories = {}
    /\ updated_files = << >>
    /\ pos = 0
    /\ next_id = 1
    /\ events = 0
    /\ runs = [f \in Files |-> NoRun]
    /\ dir_calls = << >>
    /\ startup = << >>
    /\ scan = << >>

\* nothing connected, nothing requested; config is the one of ServerInit
ServerState ==
    /\ main_pc = "start"
    /\ connected_clients = << >>
    /\ handlers = << >>
    /\ pending = {}
    /\ delivered = {}
    /\ threads = {}
    /\ zips = {}
    /\ exchange = << >>
    /\ requests = 0

InitServer ==
    /\ ServerState
    /\ config = [DOWNLOAD_URL |-> TRUE, LOG_URL |-> TRUE]

Init ==
    /\ InitMonitor
    /\ InitServer
    /\ input = << >>
    /\ output = << >>
    /\ janitor = NoJanitor

\* ------------------------------------------------------------------ store
\* Every call is modelled by the set of results it can have.  nf counts the
\* failures a result needs; raised says that an exception left the call.

\* a log that keeps its last message only
log_error_to_db_latest(logs, error_text) ==
    { [raised |-> FALSE, logs |-> << error_text >>, nf |-> 0],
      [raised |-> FALSE, logs |-> logs, nf |-> 1],
      [raised |-> TRUE,  logs |-> logs, nf |-> 1] }

\* log_error_to_db(error_text): connect_db() is outside the try, so a failed
\* connection raises; a DatabaseError of the INSERT is caught and rolled back
log_error_to_db(logs, error_text) ==
    { [raised |-> FALSE, logs |-> Append(logs, error_text), nf |-> 0],
      [raised |-> FALSE, logs |-> logs, nf |-> 1],
      [raised |-> TRUE,  logs |-> logs, nf |-> 1] }

\* get_directory_id(dir_relative_path): the id of a row with that path
\* (fetchone: any of them), None if there is none, and None as well after a
\* DatabaseError, which is logged to the store
get_directory_id(gr, logs, path) ==
    LET found == {gr[i].id : i \in {j \in 1..Len(gr) : gr[j].path = path}}
    IN  { [raised |-> FALSE, id |-> i, logs |-> logs, nf |-> 0] :
            i \in IF found = {} THEN {NoId} ELSE found }
        \cup { [raised |-> TRUE, id |-> NoId, logs |-> logs, nf |-> 1] }
        \cup { [raised |-> l.raised, id |-> NoId, logs |-> l.logs,
                nf |-> 1 + l.nf] :
                 l \in log_error_to_db(logs,
                          [log |-> "Error retrieving directory ID", path |-> path]) }

\* an insert that a row with the same path makes fail
insert_new_directory_unique(gr, logs, dir_id, path) ==
    IF \E i \in 1..Len(gr) : gr[i].path = path
      THEN { [raised |-> TRUE, graphs |-> gr, logs |-> logs, nf |-> 0] }
      ELSE { [raised |-> FALSE,
              graphs |-> Append(gr, [id |-> dir_id, path |-> path]),
              logs |-> logs, nf |-> 0] }

\* insert_new_directory(dir_id, dir_name, dir_relative_path)
insert_new_directory(gr, logs, dir_id, path) ==
    { [raised |-> FALSE, graphs |-> Append(gr, [id |-> dir_id, path |-> path]),
       logs |-> logs, nf |-> 0],
      [raised |-> TRUE, graphs |-> gr, logs |-> logs, nf |-> 1] }
    \cup { [raised |-> l.raised, graphs |-> gr, logs |-> l.logs,
            nf |-> 1 + l.nf] :
             l \in log_error_to_db(logs,
                      [log |-> "Error registering directory", path |-> path]) }

\* is_file_registered(file_path): every exception gives False
is_file_registered(gc, file_path) ==
    { [result |-> \E i \in 1..Len(gc) : gc[i].original = file_path, nf |-> 0],
      [result |-> FALSE, nf |-> 1] }

\* save_to_database(original, preview, graph_id, ..., name, error): the row
\* goes to logs_script if error is truthy and to graphs_children otherwise;
\* every exception is caught.  The logs_script row is (id, str(error)): it
\* names the file only when the message does, as the one of a
\* FileNotFoundError.
save_to_database(gc, logs, original, preview_filename, graph_id, name, error) ==
    { IF error # ""
        THEN [graphs_children |-> gc,
              logs |-> Append(logs,
                         [log |-> error,
                          path |-> IF error = "No such file or directory"
                                   THEN original ELSE ""]),
              nf |-> 0]
        ELSE [graphs_children |->
                 Append(gc, [original |-> original, preview |-> preview_filename,
                             graph_id |-> graph_id, name |-> name]),
              logs |-> logs, nf |-> 0],
      [graphs_children |-> gc, logs |-> logs, nf |-> 1] }

\* ensure_directory_registered(full_dir_path): look the relative path up and
\* insert it under a fresh uuid when the lookup gave None
ensure_directory_registered(gr, logs, nid, path) ==
    UNION { IF g.raised
              THEN { [raised |-> TRUE, id |-> NoId, graphs |-> gr,
                      logs |-> g.logs, next_id |-> nid, nf |-> g.nf] }
            ELSE IF g.id # NoId
              THEN { [raised |-> FALSE, id |-> g.id, graphs |-> gr,
                      logs |-> g.logs, next_id |-> nid, nf |-> g.nf] }
            ELSE { [raised |-> n.raised, id |-> IF n.raised THEN NoId ELSE nid,
                    graphs |-> n.graphs, logs |-> n.logs, next_id |-> nid + 1,
                    nf |-> g.nf + n.nf] :
                     n \in insert_new_directory(gr, g.logs, nid, path) }
          : g \in get_directory_id(gr, logs, path) }

\* ------------------------------------------------------------------ image
\* the messages str(e) of the exceptions of decode and render: some text, or
\* the empty string (an exception raised without arguments)
ErrorTexts == {"error text", ""}

\* the except branch of preview: save_to_database(arch, None, graph_id, None,
\* None, None, None, None, str(e))
preview_except(gc, logs, pv, arch, graph_id, e, nf) ==
    { [raised |-> FALSE, graphs_children |-> s.graphs_children, logs |-> s.logs,
       previews |-> pv,
       outcome |-> IF s.nf > 0 THEN "UNLOGGED"
                   ELSE IF e = "" THEN "MISFILED" ELSE "FAILED",
       nf |-> nf + s.nf] :
         s \in save_to_database(gc, logs, arch, NoPath, graph_id, "", e) }

\* the end of preview's try block, once the preview was rendered: the dedup
\* check and the metadata row
preview_record(gc, logs, pv, arch, graph_id, nf) ==
    UNION { IF c.result
              THEN { [raised |-> FALSE, graphs_children |-> gc, logs |-> logs,
                      previews |-> pv, outcome |-> "SKIPPED_DUPLICATE",
                      nf |-> nf + c.nf] }
              ELSE { [raised |-> FALSE, graphs_children |-> s.graphs_children,
                      logs |-> s.logs, previews |-> pv,
                      outcome |-> IF s.nf > 0 THEN "UNRECORDED" ELSE "RECORDED",
                      nf |-> nf + c.nf + s.nf] :
                       s \in save_to_database(gc, logs, arch, output_path(arch),
                                              graph_id, preview_name(arch), "") }
          : c \in is_file_registered(gc, arch) }

\* the render step: img.save on the generic path raises when it fails;
\* cv2.imwrite on the complex-TIFF path raises or returns False, and
\* save_image_as_jpeg drops the return value
render(pv, arch, complex_tiff) ==
    { [written |-> TRUE, error |-> "none", previews |-> pv \cup {output_path(arch)},
       nf |-> 0] }
    \cup { [written |-> FALSE, error |-> e, previews |-> pv, nf |-> 1] :
             e \in ErrorTexts }
    \cup IF complex_tiff
           THEN { [written |-> FALSE, error |-> "none", previews |-> pv, nf |-> 1] }
           ELSE {}

\* the decode step: the strategy follows the extension; a TIFF is complex iff
\* an ICC profile is found in it.  A missing file fails with a message.
decode(arch, present) ==
    IF ~present
      THEN { [ok |-> FALSE, error |-> "No such file or directory",
              complex_tiff |-> FALSE, nf |-> 0] }
      ELSE { [ok |-> TRUE, error |-> "none", complex_tiff |-> c, nf |-> 0] :
               c \in IF ext(arch) \in {"tif", "tiff"} THEN BOOLEAN ELSE {FALSE} }
           \cup { [ok |-> FALSE, error |-> e, complex_tiff |-> FALSE, nf |-> 1] :
                    e \in ErrorTexts }

\* preview(arch, folder_path, folder_destiny, graph_id)
preview(gc, logs, pv, arch, graph_id, present) ==
    { [raised |-> TRUE, graphs_children |-> gc, logs |-> logs, previews |-> pv,
       outcome |-> "ABORTED", nf |-> 1] }
    \cup UNION {
        IF ~d.ok
          THEN preview_except(gc, logs, pv, arch, graph_id, d.error, d.nf)
          ELSE UNION {
                 IF r.error # "none"
                   THEN preview_except(gc, logs, r.previews, arch, graph_id,
                                       r.error, d.nf + r.nf)
                   ELSE preview_record(gc, logs, r.previews, arch, graph_id,
                                       d.nf + r.nf)
               : r \in render(pv, arch, d.complex_tiff) }
      : d \in decode(arch, present) }

\* ------------------------------------------------------------ environment
\* the tree is no longer as the forced start found it
tree_changed(sc) == IF sc = << >> THEN sc ELSE << [sc[1] EXCEPT !.changed = TRUE] >>

\* a file is created or modified: its mtime becomes m
Touch(f, m) ==
    /\ m # mtime[f]
    /\ events < MaxEvents
    /\ events' = events + 1
    /\ mtime' = [mtime EXCEPT ![f] = m]
    /\ scan' = tree_changed(scan)
    /\ UNCHANGED <<previews, store, pc, watch, runs, dir_calls, startup, outside>>

\* a file is removed
Remove(f) ==
    /\ mtime[f] # 0
    /\ events < MaxEvents
    /\ events' = events + 1
    /\ mtime' = [mtime EXCEPT ![f] = 0]
    /\ scan' = tree_changed(scan)
    /\ UNCHANGED <<previews, store, pc, watch, runs, dir_calls, startup, outside>>

\* ------------------------------------------------------------ monitor_folder
exists(f) == mtime[f] # 0

Range(seq) == {seq[i] : i \in 1..Len(seq)}

Emitted(upd) == {upd[i].file_path : i \in 1..Len(upd)}

\* the last two calls
Push(calls, c) == IF Len(calls) < 2 THEN Append(calls, c) ELSE <<calls[2], c>>

\* a baseline that records the files without reading their mtime
BaselineUnread ==
    [f \in {g \in Files : exists(g) /\ ~startswith_dot(g)} |-> None]

\* the baseline walk of a non-forced start (lines 91-103): every non-hidden
\* file with its mtime
Baseline ==
    [f \in {g \in Files : exists(g) /\ ~startswith_dot(g)} |-> mtime[f]]

\* ... and every walked directory seen
BaselineDirs == Range(WalkOrder)

\* is_directory_empty(directory): no file below it, at any depth
RECURSIVE is_directory_empty(_)
is_directory_empty(directory) ==
    /\ \A f \in Files : dirname(f) = directory => ~exists(f)
    /\ \A i \in 1..Len(WalkDirs(directory)) :
          is_directory_empty(WalkDirs(directory)[i])

\* what a start finds: the events so far, the rows of the two tables, and
\* whether every existing non-hidden file and every non-empty directory is
\* recorded already
found ==
    [events |-> events,
     rows |-> Len(graphs_children),
     dirs |-> Len(graphs),
     recorded |->
        /\ \A f \in Files : (exists(f) /\ ~startswith_dot(f)) =>
              \E i \in 1..Len(graphs_children) :
                 /\ graphs_children[i].original = f
                 /\ graphs_children[i].preview # NoPath
        /\ \A d \in SubDirs : ~is_directory_empty(d) =>
              \E i \in 1..Len(graphs) : graphs[i].path = d,
     changed |-> FALSE]

\* monitor_folder(folder_path, force_resync) up to the while loop
Start(force) ==
    /\ pc \in {"down", "crashed", "interrupted"}
    /\ files_dict' = IF force THEN << >> ELSE Baseline
    /\ seen_directories' = IF force THEN {} ELSE BaselineDirs
    /\ updated_files' = << >>
    /\ pos' = 0
    /\ pc' = "sleep"
    /\ runs' = [f \in Files |-> NoRun]
    /\ startup' = << [force |-> force, mtime |-> mtime] >>
    /\ scan' = IF force THEN << found >> ELSE << >>
    /\ UNCHANGED <<fs, store, events, dir_calls, outside>>

\* a scan that looks at an empty directory again in the next pass
RECURSIVE register_dirs_retry_empty(_, _, _)
register_dirs_retry_empty(dirs, i, st) ==
    IF i > Len(dirs) THEN {st}
    ELSE IF dirs[i] \in st.seen THEN register_dirs_retry_empty(dirs, i + 1, st)
    ELSE (IF st.nf < st.budget
            THEN { [st EXCEPT !.raised = TRUE, !.nf = @ + 1] } ELSE {})
         \cup IF is_directory_empty(dirs[i])
                THEN register_dirs_retry_empty(dirs, i + 1, st)
                ELSE UNION {
                       IF e.raised
                         THEN { [st EXCEPT !.raised = TRUE, !.graphs = e.graphs,
                                           !.logs = e.logs, !.next_id = e.next_id,
                                           !.nf = @ + e.nf] }
                         ELSE register_dirs_retry_empty(dirs, i + 1,
                                [st EXCEPT !.graphs = e.graphs, !.logs = e.logs,
                                           !.next_id = e.next_id, !.nf = @ + e.nf,
                                           !.seen = @ \cup {dirs[i]},
                                           !.calls = Push(@, [path |-> dirs[i],
                                                              id |-> e.id])])
                     : e \in { x \in ensure_directory_registered(st.graphs,
                                         st.logs, st.next_id, dirs[i]) :
                               st.nf + x.nf <= st.budget } }

\* lines 121-131 for the dirs of one root, from index i on: a directory not
\* yet seen is registered unless it is empty, and is seen from then on.
\* is_directory_empty raises ValueError when the directory cannot be read.
\* st.budget is the number of failures the run may still have.
RECURSIVE register_dirs(_, _, _)
register_dirs(dirs, i, st) ==
    IF i > Len(dirs) THEN {st}
    ELSE IF dirs[i] \in st.seen THEN register_dirs(dirs, i + 1, st)
    ELSE (IF st.nf < st.budget
            THEN { [st EXCEPT !.raised = TRUE, !.nf = @ + 1] } ELSE {})
         \cup IF is_directory_empty(dirs[i])
                THEN register_dirs(dirs, i + 1,
                                   [st EXCEPT !.seen = @ \cup {dirs[i]}])
                ELSE UNION {
                       IF e.raised
                         THEN { [st EXCEPT !.raised = TRUE, !.graphs = e.graphs,
                                           !.logs = e.logs, !.next_id = e.next_id,
                                           !.nf = @ + e.nf] }
                         ELSE register_dirs(dirs, i + 1,
                                [st EXCEPT !.graphs = e.graphs, !.logs = e.logs,
                                           !.next_id = e.next_id, !.nf = @ + e.nf,
                                           !.seen = @ \cup {dirs[i]},
                                           !.calls = Push(@, [path |-> dirs[i],
                                                              id |-> e.id])])
                     : e \in { x \in ensure_directory_registered(st.graphs,
                                         st.logs, st.next_id, dirs[i]) :
                               st.nf + x.nf <= st.budget } }

\* a scan that emits only the files the watch state knows already
RECURSIVE scan_files_known_only(_, _, _, _)
scan_files_known_only(files, i, gone, upd) ==
    IF i > Len(files) THEN upd
    ELSE LET file_path == files[i]
             mt == IF file_path \in gone THEN None ELSE mtime[file_path]
         IN  IF exists(file_path) /\ ~startswith_dot(file_path)
                /\ file_path \in DOMAIN files_dict /\ files_dict[file_path] # mt
               THEN scan_files_known_only(files, i + 1, gone,
                               Append(upd, [file_path |-> file_path, mt |-> mt]))
               ELSE scan_files_known_only(files, i + 1, gone, upd)

\* lines 133-143 for the files of one root: gone are the files that vanish
\* between the listing and getmtime (FileNotFoundError, mt = None)
RECURSIVE scan_files(_, _, _, _)
scan_files(files, i, gone, upd) ==
    IF i > Len(files) THEN upd
    ELSE LET file_path == files[i]
             mt == IF file_path \in gone THEN None ELSE mtime[file_path]
         IN  IF exists(file_path) /\ ~startswith_dot(file_path)
                /\ (file_path \notin DOMAIN files_dict \/ files_dict[file_path] # mt)
               THEN scan_files(files, i + 1, gone,
                               Append(upd, [file_path |-> file_path, mt |-> mt]))
               ELSE scan_files(files, i + 1, gone, upd)

\* the os.walk loop of a polling pass (lines 118-143) from root k on: for
\* each root its dirs, then its files.  An exception ends the walk.
RECURSIVE walk(_, _, _)
walk(k, gone, st) ==
    IF k > Len(WalkOrder) THEN {st}
    ELSE UNION {
           IF r.raised THEN {r}
           ELSE walk(k + 1, gone,
                     [r EXCEPT !.upd = scan_files(WalkFiles(WalkOrder[k]), 1,
                                                  gone, r.upd)])
         : r \in register_dirs(WalkDirs(WalkOrder[k]), 1, st) }

\* one polling pass up to the end of its walk: time.sleep(1), the reset of
\* updated_files, the walk
Walk ==
    /\ pc = "sleep"
    /\ LET st0 == [raised |-> FALSE, graphs |-> graphs, logs |-> logs_script,
                   next_id |-> next_id, seen |-> seen_directories, nf |-> 0,
                   upd |-> << >>, calls |-> dir_calls,
                   budget |-> MaxEvents - events]
       IN \E gone \in {g \in SUBSET {f \in Files : exists(f) /\ ~startswith_dot(f)} :
                          Cardinality(g) <= MaxEvents - events} :
          \E st \in walk(1, gone, st0) :
            /\ events + st.nf + Cardinality(gone) <= MaxEvents
            /\ events' = events + st.nf
                          + (IF st.raised THEN 0 ELSE Cardinality(gone))
            /\ graphs' = st.graphs
            /\ logs_script' = st.logs
            /\ next_id' = st.next_id
            /\ seen_directories' = st.seen
            /\ dir_calls' = st.calls
            /\ IF st.raised
                 THEN /\ pc' = "crashed"
                      /\ updated_files' = << >>
                      /\ pos' = 0
                      /\ UNCHANGED mtime
                 ELSE /\ mtime' = [f \in Files |-> IF f \in gone THEN 0 ELSE mtime[f]]
                      /\ updated_files' = st.upd
                      /\ IF st.upd # << >>
                           THEN pc' = "process" /\ pos' = 1
                           ELSE pc' = "sleep" /\ pos' = 0
    /\ startup' = << >>
    /\ scan' = IF startup = << >> THEN << >>
               ELSE IF mtime' # mtime THEN tree_changed(scan) ELSE scan
    /\ UNCHANGED <<previews, graphs_children, files_dict, runs, outside>>

\* an update that keeps the emitted files only
files_dict_update_replace(fd, upd) ==
    [f \in Emitted(upd) |->
        upd[CHOOSE i \in 1..Len(upd) : upd[i].file_path = f].mt]

\* an update that forgets the emitted files
files_dict_update_dropped(fd, upd) == fd

\* an update that reads the mtimes again at the end of the pass
files_dict_update_restat(fd, upd) ==
    [f \in DOMAIN fd \cup Emitted(upd) |->
        IF f \in Emitted(upd)
          THEN (IF exists(f) THEN mtime[f] ELSE None) ELSE fd[f]]

\* files_dict.update(updated_files) (line 174)
files_dict_update(fd, upd) ==
    LET val(f) == upd[CHOOSE i \in 1..Len(upd) : upd[i].file_path = f].mt
    IN  [f \in DOMAIN fd \cup Emitted(upd) |->
            IF f \in Emitted(upd) THEN val(f) ELSE fd[f]]

\* a loop that a failed file ends
loop_next_until_failure(i, oc) ==
    IF oc \in {"FAILED", "MISFILED", "UNLOGGED"}
      THEN Len(updated_files) + 1 ELSE i + 1

\* the for loop over updated_files goes on to the next item whatever the
\* outcome of the try/except around preview (lines 147, 166-172)
loop_next(i, oc) == i + 1

\* one iteration of the loop over updated_files (lines 147-172), followed by
\* files_dict.update after the last one (line 174).  os.makedirs and
\* ensure_directory_registered are outside the try: an exception of the
\* first ends the run as ABORTED, one of the second as UNRESOLVED.
ProcessFile ==
    /\ pc = "process"
    /\ LET file_path == updated_files[pos].file_path
           effects(nf, gr, lg, nid, gc, pv, oc, calls) ==
               /\ events + nf <= MaxEvents
               /\ events' = events + nf
               /\ graphs' = gr /\ logs_script' = lg /\ next_id' = nid
               /\ graphs_children' = gc /\ previews' = pv
               /\ dir_calls' = calls
               /\ runs' = [runs EXCEPT ![file_path] =
                              [outcome |-> oc, mt |-> updated_files[pos].mt]]
           crash(oc, nf, gr, lg, nid, gc, pv, calls) ==
               /\ effects(nf, gr, lg, nid, gc, pv, oc, calls)
               /\ pc' = "crashed"
               /\ UNCHANGED <<files_dict, updated_files, pos>>
           continue(nf, gr, lg, nid, gc, pv, oc, calls) ==
               /\ effects(nf, gr, lg, nid, gc, pv, oc, calls)
               /\ IF loop_next(pos, oc) <= Len(updated_files)
                    THEN /\ pos' = loop_next(pos, oc)
                         /\ UNCHANGED <<pc, files_dict, updated_files>>
                    ELSE /\ files_dict' = files_dict_update(files_dict, updated_files)
                         /\ pc' = "sleep"
                         /\ pos' = 0
                         /\ UNCHANGED updated_files
       IN \/ crash("ABORTED", 1, graphs, logs_script, next_id, graphs_children, previews,
                   dir_calls)
          \/ \E e \in ensure_directory_registered(graphs, logs_script, next_id,
                                                  dirname(file_path)) :
               /\ events + e.nf <= MaxEvents
               /\ IF e.raised
                 THEN crash("UNRESOLVED", e.nf, e.graphs, e.logs, e.next_id,
                            graphs_children, previews, dir_calls)
                 ELSE LET calls == Push(dir_calls, [path |-> dirname(file_path),
                                                    id |-> e.id])
                      IN
                      \E p \in preview(graphs_children, e.logs, previews,
                                       file_path, e.id, exists(file_path)) :
                        /\ events + e.nf + p.nf <= MaxEvents
                        /\ IF ~p.raised
                          THEN continue(e.nf + p.nf, e.graphs, p.logs, e.next_id,
                                        p.graphs_children, p.previews, p.outcome,
                                        calls)
                          ELSE \E l \in log_error_to_db(p.logs,
                                          [log |-> "Error processing file",
                                           path |-> file_path]) :
                                 IF l.raised
                                   THEN crash("ABORTED", e.nf + p.nf + l.nf,
                                              e.graphs, l.logs,
                                              e.next_id, p.graphs_children,
                                              p.previews, calls)
                                   ELSE continue(e.nf + p.nf + l.nf, e.graphs,
                                                 l.logs, e.next_id,
                                                 p.graphs_children, p.previews,
                                                 IF l.nf > 0 THEN "UNLOGGED"
                                                 ELSE "FAILED", calls)
    /\ UNCHANGED <<mtime, seen_directories, startup, scan, outside>>

\* signal_handler (SIGINT, SIGTERM): log_shutdown(), then sys.exit(0); an
\* exception of log_shutdown leaves monitor_folder instead
signal_handler ==
    /\ pc \in {"sleep", "process"}
    /\ \E l \in log_error_to_db(logs_script, [log |-> "Script down.", path |-> ""]) :
         /\ events + 1 + l.nf <= MaxEvents
         /\ events' = events + 1 + l.nf
         /\ logs_script' = l.logs
         /\ pc' = IF l.raised THEN "interrupted" ELSE "down"
    /\ UNCHANGED <<fs, graphs, graphs_children, next_id, watch, history, outside>>

Next ==
    \/ \E f \in Files, m \in 1..MaxMtime : Touch(f, m)
    \/ \E f \in Files : Remove(f)
    \/ \E force \in BOOLEAN : Start(force)
    \/ Walk
    \/ ProcessFile
    \/ signal_handler

Spec == Init /\ [][Next]_vars

\* the loop of monitor_folder runs whenever it can: time.sleep(1) returns and
\* every call of an iteration returns
FairSpec == Spec /\ WF_vars(Walk) /\ WF_vars(ProcessFile)

\* ------------------------------------------------------------- main()
\* log_initialization(), log_shutdown(): LOGGER.info, then log_error_to_db
log_initialization(logs) ==
    log_error_to_db(logs, [log |-> "Script is running.", path |-> ""])

log_shutdown(logs) ==
    log_error_to_db(logs, [log |-> "Script down.", path |-> ""])

\* main(): try log_initialization() and run_http_server_in_thread(), which
\* starts a daemon thread and returns; except Exception: LOGGER.error and
\* log_error_to_db(error_message); finally log_shutdown().  An exception
\* of the except clause or of the finally clause leaves main().
main ==
    /\ main_pc = "start"
    /\ requests = 0 /\ handlers = << >>
    /\ \E i \in log_initialization(logs_script) :
         IF ~i.raised
         THEN \E s \in log_shutdown(i.logs) :
                /\ logs_script' = s.logs
                /\ main_pc' = IF s.raised THEN "shutdown_raised"
                              ELSE "returned"
         ELSE \E e \in log_error_to_db(i.logs,
                         [log |-> "An unexpected error occurred", path |-> ""]) :
              \E s \in log_shutdown(e.logs) :
                /\ logs_script' = s.logs
                /\ main_pc' = IF e.raised \/ s.raised THEN "escaped"
                              ELSE "handled"
    /\ UNCHANGED <<monitor, server, input, output, janitor>>

\* ------------------------------------------- preview: the output path
\* Paths as Python sees them: sequences of characters.  The watch root is
\* /r; rel is the path of a file below it as os.walk and normpath give it.
MaxLen == 5         \* characters of a relative path

Chars == {"r", "x", ".", "/"}

folder_path == <<"/", "r">>

\* DESTINATION
preview_root == <<"/", "p">>

startswith(s, prefix) ==
    Len(prefix) <= Len(s) /\ SubSeq(s, 1, Len(prefix)) = prefix

\* str.replace(old, new): every occurrence, left to right, without overlap
RECURSIVE str_replace(_, _, _)
str_replace(s, old, new) ==
    IF s = << >> THEN << >>
    ELSE IF startswith(s, old)
      THEN new \o str_replace(SubSeq(s, Len(old) + 1, Len(s)), old, new)
    ELSE <<s[1]>> \o str_replace(Tail(s), old, new)

\* str.split(sep) for a separator of one character
RECURSIVE str_split(_, _)
str_split(s, sep) ==
    IF \A i \in 1..Len(s) : s[i] # sep THEN <<s>>
    ELSE LET i == CHOOSE k \in 1..Len(s) :
                     s[k] = sep /\ \A j \in 1..(k - 1) : s[j] # sep
         IN  <<SubSeq(s, 1, i - 1)>> \o str_split(SubSeq(s, i + 1, Len(s)), sep)

\* '/'.join
RECURSIVE str_join(_)
str_join(parts) ==
    IF Len(parts) = 0 THEN << >>
    ELSE IF Len(parts) = 1 THEN parts[1]
    ELSE parts[1] \o <<"/">> \o str_join(Tail(parts))

\* the relative paths of the non-hidden files the walk can hand over: no
\* empty segment, no '.' or '..' segment, a file name that does not start
\* with '.'
RelPaths ==
    { rel \in UNION { [1..n -> Chars] : n \in 1..MaxLen } :
        LET segs == str_split(rel, "/")
        IN  /\ \A i \in 1..Len(segs) :
                  segs[i] \notin { << >>, <<".">>, <<".", ".">> }
            /\ segs[Len(segs)][1] # "." }

\* the call preview(arch, folder_path, folder_destiny, dir_id) that
\* monitor_folder makes for the file rel (monitor.py lines 150-167)
preview_call(rel) ==
    LET segs == str_split(rel, "/")
        relative_dir == str_join(SubSeq(segs, 1, Len(segs) - 1))
    IN  [arch |-> folder_path \o <<"/">> \o rel,
         folder_path |-> folder_path,
         folder_destiny |-> IF relative_dir = << >> THEN preview_root
                            ELSE preview_root \o <<"/">> \o relative_dir,
         rel |-> rel]

\* preview, lines 169-174: module, path, name, output_path
preview_output_path(arch, root, folder_destiny) ==
    LET module == str_split(str_replace(str_replace(arch, root, << >>),
                                        <<"\\">>, <<"/">>), ".")
        path == str_split(module[1], "/")
        name == path[Len(path)]
    IN  folder_destiny \o <<"/">> \o name \o <<".jpeg">>

PathInit ==
    /\ InitMonitor
    /\ InitServer
    /\ input \in { preview_call(rel) : rel \in RelPaths }
    /\ output = << >>
    /\ janitor = NoJanitor

\* preview computes the output path of its argument
PreviewPath ==
    /\ output = << >>
    /\ "arch" \in DOMAIN input
    /\ output' = << preview_output_path(input.arch, input.folder_path,
                                        input.folder_destiny) >>
    /\ UNCHANGED <<monitor, logs_script, main_pc, server, input, janitor>>

PathSpec == PathInit /\ [][PreviewPath]_vars

\* ---------------------------------------- preview: the resize (generic path)
MaxEdge == 7        \* width and height of a decoded raster are 1..MaxEdge
MaxLimit == 3       \* PIXEL_LIMIT is 1..MaxLimit

\* int(edge * ratio) with ratio = max_dimension / den in floating point:
\* the quotient and the product are rounded, then int() truncates.  The
\* result is the floor of the exact value, or one less when the exact value
\* is an integer that the rounded product falls just short of.
int_scaled(edge, max_dimension, den) ==
    LET exact == (edge * max_dimension) \div den
    IN  IF (edge * max_dimension) % den = 0 /\ edge * max_dimension # 0
          THEN {exact - 1, exact} ELSE {exact}

\* a ratio taken from the shorter edge
ratio_den_of_shorter(width, height) == IF width <= height THEN width ELSE height

\* ratio = min(max_dimension / img.width, max_dimension / img.height): the
\* edge that max_dimension is divided by is the longer one
ratio_den(width, height) == IF width >= height THEN width ELSE height

\* lines 182-187: new_size, or the size itself within the bound
new_size(width, height, max_dimension) ==
    IF width > max_dimension \/ height > max_dimension
      THEN { [width |-> nw, height |-> nh] :
               nw \in int_scaled(width, max_dimension, ratio_den(width, height)),
               nh \in int_scaled(height, max_dimension, ratio_den(width, height)) }
      ELSE { [width |-> width, height |-> height] }

\* lines 182-192: img.resize and img.save raise ValueError for a size with
\* a zero edge, and nothing is saved then
render_generic(width, height, max_dimension) ==
    { IF n.width < 1 \/ n.height < 1
        THEN [saved |-> FALSE, width |-> 0, height |-> 0]
        ELSE [saved |-> TRUE, width |-> n.width, height |-> n.height] :
      n \in new_size(width, height, max_dimension) }

ResizeInit ==
    /\ InitMonitor
    /\ InitServer
    /\ input \in [width : 1..MaxEdge, height : 1..MaxEdge,
                   max_dimension : 1..MaxLimit]
    /\ output = << >>
    /\ janitor = NoJanitor

\* preview renders a decoded raster on the generic path
RenderGeneric ==
    /\ output = << >>
    /\ "width" \in DOMAIN input
    /\ \E r \in render_generic(input.width, input.height, input.max_dimension) :
          output' = << r >>
    /\ UNCHANGED <<monitor, logs_script, main_pc, server, input, janitor>>

ResizeSpec == ResizeInit /\ [][RenderGeneric]_vars

\* ------------------------------------ preview: the resize (complex TIFF)
\* resize_image(image, max_width): the width alone is tested and bounded
resize_image(width, height, max_width) ==
    IF width <= max_width
      THEN { [width |-> width, height |-> height] }
      ELSE { [width |-> max_width, height |-> new_height] :
               new_height \in int_scaled(height, max_width, width) }

\* save_image_as_jpeg(image, path): cv2.resize raises for a size with a
\* zero edge, and nothing is saved then
save_image_as_jpeg(width, height, max_width) ==
    { IF n.height < 1
        THEN [saved |-> FALSE, width |-> 0, height |-> 0]
        ELSE [saved |-> TRUE, width |-> n.width, height |-> n.height] :
      n \in resize_image(width, height, max_width) }

ComplexInit ==
    /\ InitMonitor
    /\ InitServer
    /\ input \in [width : 1..MaxEdge, height : 1..MaxEdge,
                   max_dimension : 1..MaxLimit, complex_tiff : {TRUE}]
    /\ output = << >>
    /\ janitor = NoJanitor

\* preview renders a decoded raster on the complex-TIFF path (lines 176-177)
RenderComplex ==
    /\ output = << >>
    /\ "complex_tiff" \in DOMAIN input
    /\ \E r \in save_image_as_jpeg(input.width, input.height,
                                   input.max_dimension) :
          output' = << r >>
    /\ UNCHANGED <<monitor, logs_script, main_pc, server, input, janitor>>

ComplexSpec == ComplexInit /\ [][RenderComplex]_vars

\* ------------------------------------- preview: the choice of the decoder
\* str.lower() on the letters the paths of the model are made of
lower_char(c) ==
    CASE c = "P" -> "p" [] c = "S" -> "s" [] c = "B" -> "b"
      [] c = "T" -> "t" [] c = "I" -> "i" [] c = "F" -> "f"
      [] OTHER -> c

\* the text as it is
keep_case(s) == s

\* str.lower()
lower(s) == [i \in 1..Len(s) |-> lower_char(s[i])]

\* the spellings of a word in upper and lower case
Spellings(word) ==
    { s \in [1..Len(word) -> {"p", "s", "b", "t", "i", "f", "d",
                               "P", "S", "B", "T", "I", "F"}] :
        \A i \in 1..Len(word) : lower_char(s[i]) = word[i] }

\* what follows the last dot of the paths of the model: the three names
\* the dispatch knows in every spelling, and names it does not know
Extensions ==
    Spellings(<<"p", "s", "b">>) \cup Spellings(<<"t", "i", "f">>)
    \cup Spellings(<<"t", "i", "f", "f">>)
    \cup { <<"p", "s", "d">>, <<"t", "i">>, <<"t", "i", "f", "f", "f">>,
           <<"p", "s", "b", "/", "x">>, <<"T", "I", "F", "/", "x">>, << >> }

\* what precedes it: a file of the root, a file of a directory with a dot
\* in its name, a name with two dots
Stems == { <<"/", "r", "/", "x">>,
           <<"/", "r", "/", "a", ".", "b", "/", "x">>,
           <<"/", "r", "/", "x", ".", "t", "i", "f">> }

\* the paths handed to preview, and the paths without any dot after the
\* root
Archs ==
    { stem \o <<".">> \o e : stem \in Stems, e \in Extensions }
    \cup { <<"/", "r", "/", "p", "s", "b">>, <<"/", "r", "/", "t", "i", "f">> }

\* what Image.open(image) meets in is_complex_tiff: a file with an ICC
\* profile in its info, one without, one it cannot open
IccOutcomes == {"present", "absent", "unreadable"}

\* is_complex_tiff(image)
is_complex_tiff(icc) == icc = "present"

\* lines 154-167: the decoder preview calls for arch
dispatch(arch, icc) ==
    LET parts == str_split(arch, ".")
        e == lower(parts[Len(parts)])
    IN  IF e = <<"p", "s", "b">> THEN "psd_tools.PSDImage.open"
        ELSE IF e \in { <<"t", "i", "f", "f">>, <<"t", "i", "f">> }
          THEN IF is_complex_tiff(icc) THEN "convert_cmyk_to_rgb"
               ELSE "convert_tiff_to_image"
        ELSE "Image.open"

DispatchInit ==
    /\ InitMonitor
    /\ InitServer
    /\ input \in [arch : Archs, icc : IccOutcomes]
    /\ output = << >>
    /\ janitor = NoJanitor

\* preview chooses the decoder of its argument
Dispatch ==
    /\ output = << >>
    /\ "icc" \in DOMAIN input
    /\ output' = << dispatch(input.arch, input.icc) >>
    /\ UNCHANGED <<monitor, logs_script, main_pc, server, input, janitor>>

DispatchSpec == DispatchInit /\ [][Dispatch]_vars

\* ------------------------------------------- the HTTP and WebSocket servers
MaxRequests == 2    \* GET requests of a behaviour
MaxSockets == 2     \* WebSocket connections at a time

\* A header is a sequence of pieces, 'Bearer ' being one piece.
AUTH_TOKEN == <<"secret">>

Headers ==
    { << >>,                                  \* no header, or an empty one
      <<"secret">>,
      <<"Bearer ">>,
      <<"Bearer ", "x">>,
      <<"Bearer ", "secret">>,
      <<"Bearer ", "secret", "x">>,
      <<"Bearer ", "secret", "Bearer ", "x">>,
      <<"x", "Bearer ", "secret">> }

Clients == {"c1"}

\* the value of a query parameter that is not given ([None])
NoParam == ""

\* the values of the 'directory' parameter, split at ','; << >>: not given
Directories == { << >>, <<"i1", "i2">> }

\* every header with a complete request for each path, and every choice of
\* the parameters of /download under the header that carries the secret
Requests ==
    [header : Headers, path : {"/download"}, directory : {<<"i1", "i2">>},
     client : Clients, user_id : Clients]
    \cup
    [header : Headers, path : {"/file"}, directory : { << >> },
     client : {NoParam}, user_id : {NoParam}]
    \cup
    [header : {<<"Bearer ">> \o AUTH_TOKEN}, path : {"/download"},
     directory : Directories,
     client : Clients \cup {NoParam}, user_id : Clients \cup {NoParam}]

\* what do_GET did for a request: the statuses of send_response in order,
\* the body, the ids it lists, the requests made to the upstream service,
\* the calls of the store, whether the ZIP thread was started, whether file
\* content was written; up, lookup and found are what the upstream service
\* and the store answered
Reply(statuses, body, ids, upstream, db, thread, served, up, lookup, rows) ==
    [statuses |-> statuses, body |-> body, ids |-> ids, upstream |-> upstream,
     db |-> db, thread |-> thread, served |-> served,
     up |-> up, lookup |-> lookup, found |-> rows]

\* do_GET, lines 45-59: the two 401 answers
unauthorized(auth_header) ==
    IF auth_header = << >> \/ ~startswith(auth_header, <<"Bearer ">>)
    THEN {Reply(<<401>>, "Missing or invalid Authorization header", << >>,
                0, 0, FALSE, FALSE, "none", "none", {})}
    ELSE LET token == str_split(auth_header, "Bearer ")[2]
         IN  IF token # AUTH_TOKEN
             THEN {Reply(<<401>>, "Unauthorized", << >>,
                         0, 0, FALSE, FALSE, "none", "none", {})}
             ELSE {}

\* do_GET, /download: the answers in the order of the code.  The upstream
\* GET fails (RequestException), answers with 'data' or answers without it:
\* filters is None then and fetch_filtered_items raises a TypeError that no
\* except clause of do_GET catches.  fetch_filtered_items raises a
\* DatabaseError or returns the rows of the permitted ids it found.  With
\* all ids found the thread is started, then the PUT to LOG_URL is made if
\* 'client' is given, then 201 is sent; a RequestException of the PUT is
\* answered 502.
download(req) ==
    IF req.directory = << >>
    THEN {Reply(<<400>>, "Missing directory parameter", << >>,
                0, 0, FALSE, FALSE, "none", "none", {})}
    ELSE IF ~config.DOWNLOAD_URL
    THEN {Reply(<<500>>, "Missing DOWNLOAD_URL environment variable", << >>,
                0, 0, FALSE, FALSE, "none", "none", {})}
    ELSE IF ~config.LOG_URL
    THEN {Reply(<<500>>, "Missing LOG_URL environment variable", << >>,
                0, 0, FALSE, FALSE, "none", "none", {})}
    ELSE
      {Reply(<<502>>, "Error fetching download", << >>,
             1, 0, FALSE, FALSE, "failed", "none", {})}
      \cup
      {Reply(<< >>, "", << >>, 1, 1, FALSE, FALSE, "nodata", "none", {})}
      \cup
      {Reply(<<500>>, "Database error", << >>,
             1, 1, FALSE, FALSE, "ok", "failed", {})}
      \cup
      UNION { LET list_not_found ==
                    SelectSeq(req.directory, LAMBDA item : item \notin ids)
              IN  IF ids = {}
                  THEN {Reply(<<404>>, "No files found", << >>,
                              1, 1, FALSE, FALSE, "ok", "ok", ids)}
                  ELSE IF list_not_found # << >>
                  THEN {Reply(<<404>>, "Files not found", list_not_found,
                              1, 1, FALSE, FALSE, "ok", "ok", ids)}
                  ELSE IF req.client = NoParam
                  THEN {Reply(<<201>>, "", << >>,
                              1, 1, TRUE, FALSE, "ok", "ok", ids)}
                  ELSE {Reply(<<201>>, "", << >>,
                              2, 1, TRUE, FALSE, "ok", "ok", ids),
                        Reply(<<502>>, "Error fetching download", << >>,
                              2, 1, TRUE, FALSE, "ok", "ok", ids)}
            : ids \in SUBSET Range(req.directory) }

\* do_GET, any other path: the file below the served directory
serve_file(req) ==
    { Reply(<<404>>, "File not found or invalid path", << >>,
            0, 0, FALSE, FALSE, "none", "none", {}),
      Reply(<<403>>, "Forbidden: Cannot read file", << >>,
            0, 0, FALSE, FALSE, "none", "none", {}),
      Reply(<<200>>, "", << >>, 0, 0, FALSE, TRUE, "none", "none", {}) }

respond(req) ==
    IF unauthorized(req.header) # {} THEN unauthorized(req.header)
    ELSE IF req.path = "/download" THEN download(req)
    ELSE serve_file(req)

\* AuthHTTPRequestHandler.do_GET: one request, answered.  A thread that was
\* started keeps the query parameters; status is the answer its request got
\* (0: none).
do_GET ==
    /\ main_pc = "start"
    /\ requests < MaxRequests
    /\ \E req \in Requests : \E r \in respond(req) :
         /\ exchange' = <<[request |-> req] @@ r>>
         /\ threads' =
              IF r.thread
              THEN threads \cup
                     {[id |-> requests + 1, client |-> req.client,
                       user_id |-> req.user_id,
                       status |-> IF r.statuses = << >> THEN 0
                                  ELSE r.statuses[Len(r.statuses)],
                       at |-> "started"]}
              ELSE threads
    /\ requests' = requests + 1
    /\ UNCHANGED <<monitor, logs_script, main_pc, connected_clients, handlers,
                   pending, delivered, zips, config, input, output, janitor>>

\* websocket_handler, lines 55-56: a connection under the path /<client_id>
\* is registered, in place of the one registered before
connect(client_id) ==
    /\ main_pc = "start"
    /\ Cardinality(DOMAIN handlers) < MaxSockets
    /\ LET websocket == CHOOSE w \in 1..MaxSockets : w \notin DOMAIN handlers
       IN  /\ handlers' = [w \in DOMAIN handlers \cup {websocket} |->
                             IF w = websocket
                             THEN [client |-> client_id, open |-> TRUE]
                             ELSE handlers[w]]
           /\ connected_clients' =
                [c \in DOMAIN connected_clients \cup {client_id} |->
                   IF c = client_id THEN websocket ELSE connected_clients[c]]
    /\ UNCHANGED <<monitor, logs_script, main_pc, pending, delivered, threads,
                   zips, exchange, requests, config, input, output, janitor>>

\* the peer or the network closes a connection
close(websocket) ==
    /\ main_pc = "start"
    /\ websocket \in DOMAIN handlers
    /\ handlers[websocket].open
    /\ handlers' = [handlers EXCEPT ![websocket].open = FALSE]
    /\ UNCHANGED <<monitor, logs_script, main_pc, connected_clients, pending,
                   delivered, threads, zips, exchange, requests, config,
                   input, output, janitor>>

\* websocket_handler, lines 57-64: the loop over the messages ends when the
\* connection is closed; finally the entry of client_id is deleted
websocket_handler(websocket) ==
    /\ main_pc = "start"
    /\ websocket \in DOMAIN handlers
    /\ ~handlers[websocket].open
    /\ LET client_id == handlers[websocket].client
       IN  connected_clients' =
             [c \in DOMAIN connected_clients \ {client_id} |->
                connected_clients[c]]
    /\ handlers' = [w \in DOMAIN handlers \ {websocket} |-> handlers[w]]
    /\ UNCHANGED <<monitor, logs_script, main_pc, pending, delivered, threads,
                   zips, exchange, requests, config, input, output, janitor>>

\* save_download_pending(client_id, zip_path, True)
save_download_pending(pend, client_id, zip_path) ==
    pend \cup {[client |-> client_id, zip_path |-> zip_path]}

\* delete_all_download_pending(client_id)
delete_all_download_pending(pend, client_id) ==
    {p \in pend : p.client # client_id}

\* notify_client(client_id, message): the results it can have.  send raises
\* ConnectionClosed on a connection that is closed and whose handler has
\* not yet deleted the entry.
notify_client(client_id, zip_path) ==
    IF client_id \in DOMAIN connected_clients
    THEN LET websocket == connected_clients[client_id]
         IN  IF handlers[websocket].open
             THEN [raised |-> FALSE,
                   delivered |-> delivered \cup
                       {[websocket |-> websocket, client |-> client_id,
                         status |-> "ready", zip_path |-> zip_path]},
                   pending |-> delete_all_download_pending(pending, client_id)]
             ELSE [raised |-> TRUE, delivered |-> delivered,
                   pending |-> pending]
    ELSE [raised |-> FALSE, delivered |-> delivered,
          pending |-> save_download_pending(pending, client_id, zip_path)]

\* handle_zip_creation(list_of_files, query_params) in its thread:
\* create_zip_from_files writes the archive, then divides by the total size
\* of the files for its last log line and raises ZeroDivisionError when
\* that is 0; notify_client is called with the 'user_id' parameter
handle_zip_creation(id) ==
    /\ main_pc = "start"
    /\ \E t \in threads, created \in BOOLEAN :
         /\ t.id = id
         /\ t.at = "started"
         /\ zips' = zips \cup {t.id}
         /\ IF ~created
            THEN /\ threads' = (threads \ {t}) \cup
                                 {[t EXCEPT !.at = "no_zip"]}
                 /\ UNCHANGED <<delivered, pending>>
            ELSE LET n == notify_client(t.user_id, t.id)
                 IN  /\ delivered' = n.delivered
                     /\ pending' = n.pending
                     /\ threads' = (threads \ {t}) \cup
                           {[t EXCEPT !.at = IF n.raised THEN "send_raised"
                                             ELSE "notified"]}
    /\ UNCHANGED <<monitor, logs_script, main_pc, connected_clients, handlers,
                   exchange, requests, config, input, output, janitor>>

ServerInit ==
    /\ InitMonitor
    /\ ServerState
    /\ config \in [DOWNLOAD_URL : BOOLEAN, LOG_URL : BOOLEAN]
    /\ input = << >>
    /\ output = << >>
    /\ janitor = NoJanitor

ServerNext ==
    \/ main
    \/ do_GET
    \/ \E client_id \in Clients : connect(client_id)
    \/ \E websocket \in 1..MaxSockets : close(websocket)
    \/ \E websocket \in 1..MaxSockets : websocket_handler(websocket)
    \/ \E id \in 1..MaxRequests : handle_zip_creation(id)

\* The two entry points: main(), which ends the process as soon as it
\* returns (its server thread is a daemon), and the servers as
\* start_http_server and start_websocket_server run them.
ServerSpec == ServerInit /\ [][ServerNext]_vars

\* ------------------------------------------------ do_GET: /download_exec
\* The files on disk, the paths create_zip_from_files made, and the last
\* /download_exec request with what do_GET did for it; the state is in
\* output.
MaxExecRequests == 3    \* /download_exec requests of a behaviour

\* the names tempfile.mktemp(suffix='.zip') gives, in order
TempNames == <<"/tmp/tmp1.zip", "/tmp/tmp2.zip">>

\* a file that is on disk from the start (KEY_FILE), and a path that names
\* nothing
DiskPaths == Range(TempNames) \cup {"./server.key", "/nothing"}

ExecRequests ==
    [header : { << >>, <<"Bearer ">> \o AUTH_TOKEN },
     path : DiskPaths \cup {NoParam}]

NoExchange == [request |-> [header |-> << >>, path |-> NoParam],
               statuses |-> << >>, existed |-> FALSE, streamed |-> FALSE,
               removed |-> FALSE]

ExecInit ==
    /\ InitMonitor
    /\ InitServer
    /\ input = << >>
    /\ output = [disk |-> {"./server.key"}, bundles |-> {}, requests |-> 0,
                 last |-> NoExchange]
    /\ janitor = NoJanitor

\* create_zip_from_files(file_paths), called by handle_zip_creation: the
\* archive is written at a fresh temporary path
create_zip_from_files ==
    /\ \E i \in 1..Len(TempNames) :
          /\ TempNames[i] \notin output.bundles
          /\ \A j \in 1..(i - 1) : TempNames[j] \in output.bundles
          /\ output' = [output EXCEPT !.disk = @ \cup {TempNames[i]},
                                      !.bundles = @ \cup {TempNames[i]}]
    /\ UNCHANGED <<monitor, logs_script, main_pc, server, input, janitor>>

\* do_GET for /download_exec (lines 45-59, 151-190): 401, 400 without the
\* path parameter, 404 when os.path.exists(zip_path) is false; else 200,
\* the file streamed in chunks and removed.  An exception of open, read or
\* write ends the streaming, one of os.remove leaves the file; either is
\* answered with a second status line, 500.
download_exec(req) ==
    /\ output.requests < MaxExecRequests
    /\ LET done(statuses, existed, streamed, removed) ==
             output' = [output EXCEPT
                          !.requests = @ + 1,
                          !.disk = IF removed THEN @ \ {req.path} ELSE @,
                          !.last = [request |-> req, statuses |-> statuses,
                                    existed |-> existed, streamed |-> streamed,
                                    removed |-> removed]]
       IN  IF unauthorized(req.header) # {}
             THEN done(<<401>>, FALSE, FALSE, FALSE)
           ELSE IF req.path = NoParam
             THEN done(<<400>>, FALSE, FALSE, FALSE)
           ELSE IF req.path \notin output.disk
             THEN done(<<404>>, FALSE, FALSE, FALSE)
           ELSE \/ done(<<200>>, TRUE, TRUE, TRUE)
                \/ done(<<200, 500>>, TRUE, FALSE, FALSE)
                \/ done(<<200, 500>>, TRUE, TRUE, FALSE)
    /\ UNCHANGED <<monitor, logs_script, main_pc, server, input, janitor>>

ExecNext ==
    \/ create_zip_from_files
    \/ \E req \in ExecRequests : download_exec(req)

ExecSpec == ExecInit /\ [][ExecNext]_vars

\* ------------------------------------------------------ the ZIP janitor
\* Times are seconds.  The clock of the model moves in steps of ClockStep
\* and stops at the times the scheduler wakes up.
MaxTicks == 4       \* steps of the clock in a behaviour

\* scheduler.enter(86400, ...)
Period == 86400

ClockStep == Period \div 2
Horizon == MaxTicks * ClockStep

\* the retention window in days; src/config/config.py has no CLEAN_ZIP_DAYS
\* and no ZIP_PATH, the value stands for the configured one
CLEAN_ZIP_DAYS == 1

\* the entries os.listdir(ZIP_PATH) can give: two files and a directory
Entries == {"b1.zip", "b2.zip", "sub"}

isfile(e) == e # "sub"

\* cutoff_timestamp of a run at time now
cutoff_timestamp(now) == now - CLEAN_ZIP_DAYS * 86400

\* a test that takes the file at the cutoff as well
is_old_or_at_cutoff(ctime, now) == ctime <= cutoff_timestamp(now)

\* file_creation_time < cutoff_timestamp
is_old(ctime, now) == ctime < cutoff_timestamp(now)

\* delete_old_files() at time now, over the entries with their ctime (None:
\* no such entry); os.remove raises for the entries in locked, which is
\* caught per file
delete_old_files(files, now, locked) ==
    LET old == {e \in Entries : /\ files[e] # None
                                /\ isfile(e)
                                /\ is_old(files[e], now)}
    IN  [files |-> [e \in Entries |->
                      IF e \in old \ locked THEN None ELSE files[e]],
         deleted |-> old \ locked,
         failed |-> old \cap locked]

JanitorInit ==
    /\ InitMonitor
    /\ InitServer
    /\ input = << >>
    /\ output = << >>
    /\ janitor = [now |-> 0, files |-> [e \in Entries |-> None],
                  task |-> "idle", due |-> 0, last |-> << >>]

\* an entry appears in ZIP_PATH (create_zip_from_files, or anyone)
Create(e) ==
    /\ janitor.files[e] = None
    /\ janitor' = [janitor EXCEPT !.files[e] = janitor.now]
    /\ UNCHANGED <<monitor, logs_script, main_pc, server, input, output>>

\* time passes; the scheduler sleeps until the event is due, not longer
Tick ==
    /\ janitor.now < Horizon
    /\ janitor.task = "waiting" => janitor.now < janitor.due
    /\ LET t == janitor.now + ClockStep
       IN  janitor' = [janitor EXCEPT !.now =
                          IF janitor.task = "waiting" /\ janitor.due < t
                          THEN janitor.due ELSE t]
    /\ UNCHANGED <<monitor, logs_script, main_pc, server, input, output>>

\* clean_schedule_task(): called once, and from then on by the scheduler
\* when its event is due.  It enters the next event, runs delete_old_files
\* and goes back to scheduler.run().  An exception of os.listdir or of
\* os.path.getctime is not caught and ends the task.
clean_schedule_task ==
    /\ \/ janitor.task = "idle"
       \/ janitor.task = "waiting" /\ janitor.now = janitor.due
    /\ \/ \E locked \in SUBSET {e \in Entries : isfile(e)} :
            LET r == delete_old_files(janitor.files, janitor.now, locked)
            IN  janitor' = [janitor EXCEPT
                              !.files = r.files,
                              !.task = "waiting",
                              !.due = janitor.now + Period,
                              !.last = << [at |-> janitor.now,
                                           before |-> janitor.files,
                                           deleted |-> r.deleted,
                                           failed |-> r.failed] >>]
       \/ janitor' = [janitor EXCEPT !.task = "ended",
                                     !.due = janitor.now + Period]
    /\ UNCHANGED <<monitor, logs_script, main_pc, server, input, output>>

JanitorNext ==
    \/ \E e \in Entries : Create(e)
    \/ Tick
    \/ clean_schedule_task

JanitorSpec == JanitorInit /\ [][JanitorNext]_vars

\* ------------------------------------------- the database connections
\* The operations of db_operations.py step by step: connect_db, the body
\* of the try, the except clause, the finally clause.  The state is in
\* output: the frames of the calls in progress (the last one is running),
\* the connections that are open, and what the last operation did.
MaxCalls == 2       \* operations one after the other in a behaviour

Operations == {"log_error_to_db", "save_to_database", "get_directory_id",
               "insert_new_directory", "is_file_registered",
               "fetch_filtered_items"}

\* the operations that call connect_db() inside their try
ConnectInsideTry == {"save_to_database", "is_file_registered"}

NoConn == 0

\* psycopg2.Error and two of its subclasses; DatabaseError is the one the
\* except clauses of four operations name
Exceptions == {"DatabaseError", "InterfaceError"}

\* the except clauses: Exception in save_to_database and is_file_registered,
\* DatabaseError in the others
catches(op, exc) == op \in ConnectInsideTry \/ exc = "DatabaseError"

Frame(op) == [op |-> op, pc |-> "connect", conn |-> NoConn, pending |-> "return"]

\* a close that only the path without an exception reaches
after_close_on_return(open, conn, how) ==
    IF how = "return" THEN open \ {conn} ELSE open

\* finally: close_db(conn, cur), or conn.close(), on every path
after_finally(open, conn, how) == open \ {conn}

top == output.stack[Len(output.stack)]

\* the running frame moves on
goto(at, how) ==
    [output EXCEPT !.stack[Len(output.stack)].pc = at,
                   !.stack[Len(output.stack)].pending = how]

\* the running operation ends with result; its caller, if any, goes on in
\* its except clause: get_directory_id to its finally, insert_new_directory
\* to conn.rollback(), and an exception takes either to its finally
finish(o, result) ==
    LET n == Len(o.stack)
        rest == SubSeq(o.stack, 1, n - 1)
    IN  IF n = 1
          THEN [o EXCEPT !.stack = << >>,
                         !.last = [op |-> o.stack[1].op, result |-> result,
                                   opened |-> o.last.opened]]
          ELSE [o EXCEPT !.stack =
                  [rest EXCEPT ![n - 1] =
                     [op |-> rest[n - 1].op,
                      pc |-> IF result = "return"
                                /\ rest[n - 1].op = "insert_new_directory"
                               THEN "rollback" ELSE "finally",
                      conn |-> rest[n - 1].conn,
                      pending |-> result]]]

DbInit ==
    /\ InitMonitor
    /\ InitServer
    /\ input = << >>
    /\ output = [stack |-> << >>, open |-> {}, next |-> 1, calls |-> 0,
                 last |-> [op |-> "none", result |-> "none", opened |-> 0]]
    /\ janitor = NoJanitor

\* the program calls an operation
operation(op) ==
    /\ output.stack = << >>
    /\ output.calls < MaxCalls
    /\ output' = [output EXCEPT
                    !.stack = << Frame(op) >>,
                    !.calls = @ + 1,
                    !.last = [op |-> op, result |-> "running", opened |-> 0]]
    /\ UNCHANGED <<monitor, logs_script, main_pc, server, input, janitor>>

\* conn, cur = connect_db(): a new connection, or psycopg2.connect raises
connect_db ==
    /\ output.stack # << >>
    /\ top.pc = "connect"
    /\ \/ output' =
            [goto("try", "return") EXCEPT
               !.stack[Len(output.stack)].conn = output.next,
               !.open = @ \cup {output.next},
               !.next = @ + 1,
               !.last.opened = @ + 1]
       \/ /\ top.op \in ConnectInsideTry
          /\ output' = goto("finally", "return")
       \/ /\ top.op \notin ConnectInsideTry
          /\ output' = finish(output, "raise")
    /\ UNCHANGED <<monitor, logs_script, main_pc, server, input, janitor>>

\* the body of the try: cur.execute, fetch, commit
execute ==
    /\ output.stack # << >>
    /\ top.pc = "try"
    /\ \/ output' = goto("finally", "return")
       \/ \E exc \in Exceptions :
            output' = IF ~catches(top.op, exc) THEN goto("finally", "raise")
                      ELSE IF top.op \in ConnectInsideTry
                        THEN goto("finally", "return")
                      ELSE goto("except", "return")
    /\ UNCHANGED <<monitor, logs_script, main_pc, server, input, janitor>>

\* except DatabaseError: log_error_to_db goes on to conn.rollback(),
\* get_directory_id and insert_new_directory call log_error_to_db,
\* fetch_filtered_items raises again
handler ==
    /\ output.stack # << >>
    /\ top.pc = "except"
    /\ output' =
         CASE top.op = "log_error_to_db" -> goto("rollback", "return")
           [] top.op = "fetch_filtered_items" -> goto("finally", "raise")
           [] OTHER ->
                [goto("calling", "return") EXCEPT
                   !.stack = Append(@, Frame("log_error_to_db"))]
    /\ UNCHANGED <<monitor, logs_script, main_pc, server, input, janitor>>

\* conn.rollback() in an except clause: done, or it raises
rollback ==
    /\ output.stack # << >>
    /\ top.pc = "rollback"
    /\ \E how \in {"return", "raise"} :
          output' = goto("finally", how)
    /\ UNCHANGED <<monitor, logs_script, main_pc, server, input, janitor>>

\* finally: close_db(conn, cur), under `if conn` where connect_db() is
\* inside the try; then the operation returns or raises
close_db ==
    /\ output.stack # << >>
    /\ top.pc = "finally"
    /\ output' =
         finish([output EXCEPT
                   !.open = IF top.conn # NoConn
                              THEN after_finally(@, top.conn, top.pending)
                              ELSE @],
                top.pending)
    /\ UNCHANGED <<monitor, logs_script, main_pc, server, input, janitor>>

DbNext ==
    \/ \E op \in Operations : operation(op)
    \/ connect_db
    \/ execute
    \/ handler
    \/ rollback
    \/ close_db

DbSpec == DbInit /\ [][DbNext]_vars

\* ------------------------------------- two passes of the pipeline at once
\* Two pipeline passes (two runs of lines 159-167 of monitor.py, as two
\* processes started on the same tree make them) for the same file, each
\* statement a step: the lookup and the insert of
\* ensure_directory_registered, then the dedup check and the insert of
\* preview.  The state is in output: the three tables, the next uuid, and
\* for each pass where it is, what its lookups returned, the failures it
\* met and the directory id it holds.
Passes == {1, 2}

RaceFile == "a/x.png"

NoPass == [pc |-> "start", dir_found |-> NoId, dir_id |-> NoId,
           file_found |-> FALSE, nf |-> 0]

RaceInit ==
    /\ InitMonitor
    /\ InitServer
    /\ input = << >>
    /\ output = [graphs |-> << >>, graphs_children |-> << >>, logs |-> << >>,
                 next_id |-> 1, pass |-> [p \in Passes |-> NoPass]]
    /\ janitor = NoJanitor

\* dir_id = db.get_directory_id(dir_relative_path)
directory_lookup(p) ==
    /\ output.pass[p].pc = "start"
    /\ \E g \in get_directory_id(output.graphs, output.logs, dirname(RaceFile)) :
          output' = [output EXCEPT
                       !.logs = g.logs,
                       !.pass[p].pc = IF g.raised THEN "raised" ELSE "dir_checked",
                       !.pass[p].dir_found = g.id,
                       !.pass[p].nf = @ + g.nf]
    /\ UNCHANGED <<monitor, logs_script, main_pc, server, input, janitor>>

\* if dir_id is None: dir_id = uuid.uuid4(); db.insert_new_directory(...)
directory_insert(p) ==
    /\ output.pass[p].pc = "dir_checked"
    /\ IF output.pass[p].dir_found # NoId
         THEN output' = [output EXCEPT
                           !.pass[p].pc = "dir_done",
                           !.pass[p].dir_id = output.pass[p].dir_found]
         ELSE \E n \in insert_new_directory(output.graphs, output.logs,
                                            output.next_id, dirname(RaceFile)) :
                output' = [output EXCEPT
                             !.graphs = n.graphs,
                             !.logs = n.logs,
                             !.next_id = @ + 1,
                             !.pass[p].pc = IF n.raised THEN "raised"
                                            ELSE "dir_done",
                             !.pass[p].dir_id = output.next_id,
                             !.pass[p].nf = @ + n.nf]
    /\ UNCHANGED <<monitor, logs_script, main_pc, server, input, janitor>>

\* preview: is_file_registered(arch), once the preview is rendered
file_lookup(p) ==
    /\ output.pass[p].pc = "dir_done"
    /\ \E c \in is_file_registered(output.graphs_children, RaceFile) :
          output' = [output EXCEPT
                       !.pass[p].pc = "file_checked",
                       !.pass[p].file_found = c.result,
                       !.pass[p].nf = @ + c.nf]
    /\ UNCHANGED <<monitor, logs_script, main_pc, server, input, janitor>>

\* preview: return if the file is registered, save_to_database(...) if not
file_insert(p) ==
    /\ output.pass[p].pc = "file_checked"
    /\ IF output.pass[p].file_found
         THEN output' = [output EXCEPT !.pass[p].pc = "skipped"]
         ELSE \E s \in save_to_database(output.graphs_children, output.logs,
                                        RaceFile, output_path(RaceFile),
                                        output.pass[p].dir_id,
                                        preview_name(RaceFile), "") :
                output' = [output EXCEPT
                             !.graphs_children = s.graphs_children,
                             !.logs = s.logs,
                             !.pass[p].pc = "saved",
                             !.pass[p].nf = @ + s.nf]
    /\ UNCHANGED <<monitor, logs_script, main_pc, server, input, janitor>>

RaceNext ==
    \/ \E p \in Passes : directory_lookup(p)
    \/ \E p \in Passes : directory_insert(p)
    \/ \E p \in Passes : file_lookup(p)
    \/ \E p \in Passes : file_insert(p)

RaceSpec == RaceInit /\ [][RaceNext]_vars

\* ================================================================== claims
Hidden == {"a/.h.png"}
NonHidden == Files \ Hidden
running == pc \in {"sleep", "process"}
FailureOutcomes ==
    {"FAILED", "MISFILED", "UNLOGGED", "UNRECORDED", "ABORTED", "UNRESOLVED"}

\* C1: graphs_children holds at most one row per original file path.
C1_OneRowPerOriginal ==
    \A i, j \in 1..Len(graphs_children) :
        graphs_children[i].original = graphs_children[j].original => i = j

\* C2: graphs holds at most one row per relative directory path, also after
\* a store error during a lookup or an insert.
C2_OneRowPerDirectoryPath ==
    \A i, j \in 1..Len(graphs) : graphs[i].path = graphs[j].path => i = j

\* C3: two calls of ensure_directory_registered in sequence with the same
\* path return the same identifier and leave exactly one row for the path.
C3_EnsureTwiceSameId ==
    (Len(dir_calls) = 2 /\ dir_calls[1].path = dir_calls[2].path) =>
        /\ dir_calls[1].id = dir_calls[2].id
        /\ Cardinality({i \in 1..Len(graphs) :
                          graphs[i].path = dir_calls[2].path}) = 1

\* C4: a file whose name begins with '.' is never in the watch state, never
\* emitted, and has no pipeline run, preview file, row or error-log entry.
C4_HiddenFilesExcluded ==
    \A f \in Hidden :
        /\ f \notin DOMAIN files_dict
        /\ f \notin Emitted(updated_files)
        /\ runs[f] = NoRun
        /\ output_path(f) \notin previews
        /\ \A i \in 1..Len(graphs_children) : graphs_children[i].original # f
        /\ \A i \in 1..Len(logs_script) : logs_script[i].path # f

\* a pass walked over a tree whose only file is hidden (its directory was
\* registered as not empty) and emitted nothing
C4_Witness ==
    /\ events = 1
    /\ \E f \in Hidden : exists(f)
    /\ pc = "sleep"
    /\ startup = << >>
    /\ \E i \in 1..Len(graphs) : graphs[i].path = "a"
    /\ updated_files = << >>

\* C5: a decode (or render) failure on one file of a pass does not keep the
\* other files of the pass from being processed: every file before the loop
\* position has had its run, and a pass that ends has run them all.
C5_ErrorIsolation ==
    LET ran(i) == LET f == updated_files[i].file_path
                  IN  /\ runs[f].mt = updated_files[i].mt
                      /\ runs[f].outcome \notin {"NONE", "ABORTED", "UNRESOLVED"}
    IN  /\ pc = "process" => /\ pos \in 1..Len(updated_files)
                             /\ \A i \in 1..(pos - 1) : ran(i)
        /\ pc = "sleep" => \A i \in 1..Len(updated_files) : ran(i)

\* a pass of two files ended: the first failed and was logged, the second
\* was recorded
C5_Witness ==
    /\ pc = "sleep"
    /\ Len(updated_files) = 2
    /\ runs[updated_files[1].file_path].outcome = "FAILED"
    /\ runs[updated_files[2].file_path].outcome = "RECORDED"
    /\ \E i \in 1..Len(graphs_children) :
          graphs_children[i].original = updated_files[2].file_path

\* C6: no error of a single file or directory leaves monitor_folder's loop.
C6_LoopSurvivesErrors == pc # "crashed"

LastRead(f) ==
    IF pc = "process" /\ f \in Emitted(updated_files)
      THEN updated_files[CHOOSE i \in 1..Len(updated_files) :
                            updated_files[i].file_path = f].mt
    ELSE IF f \in DOMAIN files_dict THEN files_dict[f]
    ELSE 0

\* the pipeline is about to run on f
Handling(f) == pc = "process" /\ updated_files[pos].file_path = f

\* C8 as stated: whenever a non-hidden file has an mtime that differs from
\* the watch state, a later pass runs the pipeline on it, if the loop keeps
\* running.
C8_AtLeastOnce ==
    \A f \in NonHidden, m \in 1..MaxMtime :
        (running /\ mtime[f] = m
           /\ (f \notin DOMAIN files_dict \/ files_dict[f] # m))
        ~> (Handling(f) \/ ~running)

\* C8 as amended: whenever a non-hidden file has an mtime that differs from
\* the value the watcher last read for it, the pipeline runs on it later,
\* unless the loop stops or the file is removed or touched again first.
C8_AtLeastOnceUnlessChanged ==
    \A f \in NonHidden, m \in 1..MaxMtime :
        (running /\ mtime[f] = m /\ LastRead(f) # m)
        ~> (Handling(f) \/ ~running \/ mtime[f] # m)

\* a file was modified after its pipeline run, while the pass was still at
\* another file
C8_Witness ==
    /\ pc = "process"
    /\ pos = 2
    /\ LET f == updated_files[1].file_path
       IN  /\ runs[f].outcome = "RECORDED"
           /\ exists(f)
           /\ mtime[f] # updated_files[1].mt

\* C9: a file whose pipeline run ended in failure is not emitted again by a
\* later pass of the same process with the mtime it failed with.
C9_FailedNotRetried ==
    [][(pc = "sleep" /\ pc' = "process") =>
         \A i \in 1..Len(updated_files') :
            LET f == updated_files'[i].file_path
            IN  runs[f].outcome \in FailureOutcomes
                   => updated_files'[i].mt # runs[f].mt]_vars

\* a file failed, its mtime is the one it failed with, and a later pass has
\* walked the tree and emitted nothing
C9_Witness ==
    /\ pc = "sleep"
    /\ updated_files = << >>
    /\ \E f \in NonHidden :
          /\ runs[f].outcome = "FAILED"
          /\ exists(f)
          /\ mtime[f] = runs[f].mt

\* C10: every graphs_children row with a preview path names a preview file
\* that was written.
C10_RowAfterPreview ==
    \A i \in 1..Len(graphs_children) :
        graphs_children[i].preview # NoPath
           => graphs_children[i].preview \in previews

\* C11: a SIGINT or SIGTERM delivered while monitor_folder runs stops the
\* watcher, appends the record 'Script down.' to the error log, and ends the
\* process through sys.exit(0).
C11_SignalShutsDown ==
    [][(running /\ pc' \in {"down", "interrupted"}) =>
          /\ pc' = "down"
          /\ logs_script' = Append(logs_script,
                                   [log |-> "Script down.", path |-> ""])]_vars

\* C12: an exception that reaches the except clause of main() does not
\* leave main(), and main() has then written the error-log entry and after it
\* the shutdown record.
C12_MainHandlesException ==
    /\ main_pc # "escaped"
    /\ main_pc = "handled" =>
         /\ Len(logs_script) >= 2
         /\ logs_script[Len(logs_script) - 1].log = "An unexpected error occurred"
         /\ logs_script[Len(logs_script)].log = "Script down."

\* C13: a forced start over an unchanged tree whose files and directories
\* are recorded adds no graphs_children row and no graphs row, up to the
\* end of its first pass.
C13_ResyncAddsNoRows ==
    (scan # << >> /\ scan[1].recorded /\ ~scan[1].changed) =>
        /\ Len(graphs_children) = scan[1].rows
        /\ Len(graphs) = scan[1].dirs

\* C14: after the first pass of a forced start that found an empty store,
\* with no failure and no change of the tree meanwhile, every non-hidden
\* file has exactly one row, whose preview is <directory>/<base name>.jpeg,
\* its directory has exactly one row, and a hidden file has no row.
C14_ForcedScanRecordsEachFile ==
    (/\ scan # << >> /\ startup = << >> /\ pc = "sleep"
     /\ scan[1].rows = 0 /\ scan[1].dirs = 0
     /\ events = scan[1].events) =>
        \A f \in Files : exists(f) =>
            LET rows == {i \in 1..Len(graphs_children) :
                            graphs_children[i].original = f}
                \* the file's name without its extension
                base_name == Segs(f)[Len(Segs(f))][1]
            IN  IF f \in Hidden THEN rows = {}
                ELSE /\ Cardinality(rows) = 1
                     /\ \A i \in rows :
                           graphs_children[i].preview =
                              <<dirname(f), base_name, "jpeg">>
                     /\ Cardinality({i \in 1..Len(graphs) :
                                       graphs[i].path = dirname(f)}) = 1

\* C15: a GET request whose Authorization header is not 'Bearer ' followed
\* by the configured secret is answered 401 and nothing else: no content is
\* served, no call of the store or of the upstream service is made, no ZIP
\* thread is started.
C15_UnauthenticatedGets401 ==
    \A i \in 1..Len(exchange) :
        exchange[i].request.header # <<"Bearer ">> \o AUTH_TOKEN =>
            /\ exchange[i].statuses = <<401>>
            /\ ~exchange[i].served
            /\ exchange[i].db = 0
            /\ exchange[i].upstream = 0
            /\ ~exchange[i].thread

\* C16: an authenticated GET /download is answered with exactly one status,
\* and that is 400 without the directory parameter, else 500 without
\* DOWNLOAD_URL or LOG_URL, else 502 when the upstream permission request
\* failed, else 404 with the missing ids in the body when the lookup left
\* requested ids out.
C16_DownloadFailureStatuses ==
    \A i \in 1..Len(exchange) :
        LET x == exchange[i]
            missing == SelectSeq(x.request.directory,
                                 LAMBDA id : id \notin x.found)
        IN  (/\ x.request.header = <<"Bearer ">> \o AUTH_TOKEN
             /\ x.request.path = "/download") =>
              /\ Len(x.statuses) = 1
              /\ IF x.request.directory = << >> THEN x.statuses = <<400>>
                 ELSE IF ~config.DOWNLOAD_URL \/ ~config.LOG_URL
                   THEN x.statuses = <<500>>
                 ELSE IF x.up = "failed" THEN x.statuses = <<502>>
                 ELSE IF x.lookup = "ok" /\ missing # << >>
                   THEN x.statuses = <<404>> /\ x.ids = missing
                 ELSE TRUE

\* C17: the thread started for a GET /download with client=<id> that was
\* answered 201 ends only with a ready notification for its ZIP addressed to
\* that id, sent over a WebSocket or persisted as pending.  (Nothing else
\* notifies for the request: a thread that ended without is a request that
\* is never followed by its notification.)
C17_ReadyNotificationFollows201 ==
    [][\A t \in threads :
          (/\ t.at = "started" /\ t \notin threads'
           /\ t.status = 201 /\ t.client # NoParam) =>
             \/ \E n \in delivered' :
                   n.client = t.client /\ n.zip_path = t.id
             \/ \E n \in pending' :
                   n.client = t.client /\ n.zip_path = t.id]_vars

\* C18: a call of notify_client(client_id, message) either finds client_id
\* in connected_clients, sends the message on its WebSocket and clears the
\* pending notifications of client_id, or does not find it, sends nothing and
\* adds the ZIP path to the pending notifications of client_id.
C18_NotifyClientSendsOrPersists ==
    [][\A t \in threads :
          (/\ t.at = "started"
           /\ \E u \in threads' :
                 u.id = t.id /\ u.at \in {"notified", "send_raised"}) =>
             IF t.user_id \in DOMAIN connected_clients
             THEN /\ delivered' = delivered \cup
                        {[websocket |-> connected_clients[t.user_id],
                          client |-> t.user_id, status |-> "ready",
                          zip_path |-> t.id]}
                  /\ pending' = {p \in pending : p.client # t.user_id}
             ELSE /\ delivered' = delivered
                  /\ pending' = pending \cup
                        {[client |-> t.user_id, zip_path |-> t.id]}]_vars

\* C19: on the generic path, a preview saved for a raster with an edge above
\* max_dimension has its longer edge at max_dimension, within one pixel, and
\* each of its edges within one pixel of the input's edge scaled by
\* max_dimension / longer edge; a raster within the bound is saved at its
\* size.
C19_ResizeBound ==
    (output # << >> /\ output[1].saved) =>
        LET w == input.width
            h == input.height
            m == input.max_dimension
            long == IF w >= h THEN w ELSE h
            nw == output[1].width
            nh == output[1].height
            nlong == IF nw >= nh THEN nw ELSE nh
            near(n, edge) == /\ n * long <= edge * m
                             /\ edge * m <= (n + 1) * long
        IN  IF w > m \/ h > m
              THEN /\ nlong \in {m - 1, m}
                   /\ near(nw, w)
                   /\ near(nh, h)
              ELSE nw = w /\ nh = h

\* a raster of 6 by 3 with max_dimension 2 was saved as 2 by 1
C19_Witness ==
    /\ output # << >>
    /\ input = [width |-> 6, height |-> 3, max_dimension |-> 2]
    /\ output[1] = [saved |-> TRUE, width |-> 2, height |-> 1]

\* C20: for every file below the watch root, the output path of preview is
\* {folder_destiny}/{base_name}.jpeg, base_name being the last segment of
\* the relative path without the file's extension.
C20_OutputPathFromBaseName ==
    output # << >> =>
        LET segs == str_split(input.rel, "/")
            file == segs[Len(segs)]
            dots == {i \in 2..Len(file) : file[i] = "."}
            base_name == IF dots = {} THEN file
                         ELSE SubSeq(file, 1,
                                (CHOOSE i \in dots : \A j \in dots : j <= i) - 1)
        IN  output[1] = input.folder_destiny \o <<"/">> \o base_name
                           \o <<".jpeg">>
\* C21: a pass emits a non-hidden file that its walk finds if and only if
\* the watch state has no entry for the path or holds another value than the
\* one the pass reads (the mtime, or the not-found marker); and a file that a
\* completed pass of this process has read is not emitted by a later pass
\* while its mtime stays the one that was read.
C21_EmittedIffNewOrChanged ==
    [][(Walk /\ pc' # "crashed") =>
         \A f \in NonHidden :
            /\ exists(f) =>
                 LET mt == IF mtime'[f] = 0 THEN None ELSE mtime[f]
                 IN  f \in Emitted(updated_files')
                       <=> (f \notin DOMAIN files_dict \/ files_dict[f] # mt)
            /\ (runs[f] # NoRun /\ mtime[f] = runs[f].mt /\ mtime'[f] = mtime[f])
                 => f \notin Emitted(updated_files')]_vars

\* a second pass has emitted a file of the watch state whose mtime changed,
\* and has not emitted another one that the first pass had processed
C21_Witness ==
    /\ pc = "process"
    /\ \E f, g \in NonHidden :
          /\ f \in Emitted(updated_files)
          /\ f \in DOMAIN files_dict
          /\ files_dict[f] # mtime[f]
          /\ g \notin Emitted(updated_files)
          /\ exists(g)
          /\ runs[g] # NoRun
          /\ files_dict[g] = mtime[g]

\* C22: a pipeline run that does not end monitor_folder ends in one of the
\* three terminal outcomes: RECORDED (a metadata row was inserted),
\* SKIPPED_DUPLICATE (the file was registered, nothing inserted) or FAILED
\* (an error-log entry with the failure was written), also when the store
\* fails during the dedup check or the metadata insert.
C22_OneTerminalOutcome ==
    pc # "crashed" =>
        \A f \in Files :
            runs[f].outcome \in {"NONE", "RECORDED", "SKIPPED_DUPLICATE", "FAILED"}

\* C23: the error-log entry written for a failed decode or render of a file
\* holds the path of the file and the failure reason.
C23_ErrorEntryHasPathAndReason ==
    \A f \in Files :
        runs[f].outcome = "FAILED" =>
            \E i \in 1..Len(logs_script) :
                logs_script[i].path = f /\ logs_script[i].log # ""

\* C24: a pipeline run that reaches the dedup check after its render either
\* finds the original registered and leaves graphs_children as it is, or
\* does not and appends exactly one row with the original path, the preview
\* path, the directory id and the name.
C24_DedupBeforeInsert ==
    [][ProcessFile =>
         LET f == updated_files[pos].file_path
         IN  runs'[f].outcome \in {"SKIPPED_DUPLICATE", "RECORDED", "UNRECORDED"} =>
               IF runs'[f].outcome = "SKIPPED_DUPLICATE"
               THEN /\ \E i \in 1..Len(graphs_children) :
                          graphs_children[i].original = f
                    /\ graphs_children' = graphs_children
               ELSE graphs_children' =
                      Append(graphs_children,
                             [original |-> f, preview |-> output_path(f),
                              graph_id |-> dir_calls'[Len(dir_calls')].id,
                              name |-> preview_name(f)])]_vars

\* C25: a store error during the lookup or the insert of
\* ensure_directory_registered does not end the pipeline run of the file:
\* preview() is still called for it.
C25_DirectoryErrorNotFatal ==
    \A f \in Files : runs[f].outcome # "UNRESOLVED"

\* C26: a pass that scans a subdirectory it had not seen leaves a graphs row
\* for it if is_directory_empty reports it non-empty, and adds no row for it
\* if it is reported empty.
C26_NonEmptyDirectoriesRegistered ==
    [][Walk =>
         \A d \in SubDirs :
            (d \notin seen_directories /\ d \in seen_directories') =>
               LET rows(gr) == {i \in 1..Len(gr) : gr[i].path = d}
               IN  IF is_directory_empty(d)
                   THEN rows(graphs') = rows(graphs)
                   ELSE rows(graphs') # {}]_vars

\* C27: a run of the janitor removes only regular files of ZIP_PATH whose
\* creation time is below the time of the run minus the retention window,
\* removes each of them unless its own removal failed, and while the task
\* runs the next run is due 86400 seconds after the last one and happens
\* then.
C27_JanitorDeletesOldFilesDaily ==
    /\ [](janitor.task = "waiting" =>
            /\ janitor.due = janitor.last[1].at + 86400
            /\ janitor.now <= janitor.due)
    /\ [][(clean_schedule_task /\ janitor'.task = "waiting") =>
            /\ janitor.task = "waiting" => janitor.now = janitor.last[1].at + 86400
            /\ \A e \in Entries :
                  LET old == /\ janitor.files[e] # None
                             /\ janitor.files[e]
                                  < janitor.now - CLEAN_ZIP_DAYS * 86400
                  IN  /\ janitor'.files[e] # janitor.files[e] =>
                           /\ isfile(e) /\ old
                           /\ janitor'.files[e] = None
                      /\ (isfile(e) /\ old /\ e \notin janitor'.last[1].failed)
                           => janitor'.files[e] = None]_vars

\* the second run of the task removed an old file, failed to remove another
\* one and left an old directory alone
C27_Witness ==
    /\ janitor # NoJanitor
    /\ janitor.task = "waiting"
    /\ janitor.last[1].at >= 86400
    /\ janitor.last[1].deleted = {"b1.zip"}
    /\ janitor.last[1].failed = {"b2.zip"}
    /\ janitor.files["b2.zip"] # None
    /\ janitor.files["sub"] # None
    /\ janitor.files["sub"] < janitor.last[1].at - CLEAN_ZIP_DAYS * 86400

\* C28: the decoder chosen for a path is given by the lowercased text after
\* the last '.' of the path: 'psb' the layered-document decoder, 'tif' and
\* 'tiff' the complex path if an ICC profile is found and the simple TIFF
\* reader if none is found or the file cannot be inspected, anything else
\* the generic decoder; a decoder is chosen for every path.
C28_DecodeStrategyByExtension ==
    LET arch == input.arch
        dots == {i \in 1..Len(arch) : arch[i] = "."}
        start == IF dots = {} THEN 1
                 ELSE 1 + CHOOSE i \in dots : \A j \in dots : j <= i
        after == SubSeq(arch, start, Len(arch))
        is(word) == /\ Len(after) = Len(word)
                    /\ \A i \in 1..Len(word) : after[i] \in word[i]
    IN  "icc" \in DOMAIN input =>
          /\ output = << >> => ENABLED Dispatch
          /\ output # << >> =>
               /\ Len(output) = 1
               /\ output[1] =
                    IF is(<<{"p", "P"}, {"s", "S"}, {"b", "B"}>>)
                      THEN "psd_tools.PSDImage.open"
                    ELSE IF \/ is(<<{"t", "T"}, {"i", "I"}, {"f", "F"}>>)
                            \/ is(<<{"t", "T"}, {"i", "I"}, {"f", "F"}, {"f", "F"}>>)
                      THEN IF input.icc = "present" THEN "convert_cmyk_to_rgb"
                           ELSE "convert_tiff_to_image"
                    ELSE "Image.open"

\* a TIFF with an upper-case extension that cannot be inspected went to the
\* simple TIFF reader
C28_Witness ==
    /\ "icc" \in DOMAIN input
    /\ input.arch = <<"/", "r", "/", "a", ".", "b", "/", "x", ".", "T", "I", "F", "F">>
    /\ input.icc = "unreadable"
    /\ output = << "convert_tiff_to_image" >>

\* C29: a preview saved on the complex-TIFF path has no edge above
\* max_dimension, and its width and height are within one pixel of what
\* the generic path gives for the same raster.
C29_ComplexPathBoundsLongestEdge ==
    ("complex_tiff" \in DOMAIN input /\ output # << >> /\ output[1].saved) =>
        /\ output[1].width <= input.max_dimension
        /\ output[1].height <= input.max_dimension
        /\ \E g \in render_generic(input.width, input.height,
                                   input.max_dimension) :
              /\ g.saved
              /\ output[1].width - g.width \in {-1, 0, 1}
              /\ output[1].height - g.height \in {-1, 0, 1}

\* C30: each database operation opens a connection of its own, and when it
\* has returned or raised, every connection opened since it was called is
\* closed: none is open between two operations.
C30_ConnectionPerOperationReleased ==
    /\ []("stack" \in DOMAIN output =>
            /\ output.stack = << >> => output.open = {}
            /\ \A i, j \in 1..Len(output.stack) :
                  (i # j /\ output.stack[i].conn # NoConn)
                     => output.stack[i].conn # output.stack[j].conn
            /\ output.open \subseteq
                  { output.stack[i].conn : i \in 1..Len(output.stack) })
    /\ [][connect_db => output'.open \in
                          {output.open, output.open \cup {output.next}}]_vars

\* insert_new_directory failed, its log_error_to_db opened a second
\* connection, conn.rollback() raised, and nothing is open afterwards
C30_Witness ==
    /\ "stack" \in DOMAIN output
    /\ output.stack = << >>
    /\ output.last = [op |-> "insert_new_directory", result |-> "raise",
                      opened |-> 2]
    /\ output.calls = MaxCalls

\* C31: no step of the watcher or of the pipeline changes or removes a row
\* of graphs, graphs_children or logs_script: each table keeps the rows it
\* had, in place, and a file that is recorded already and is processed
\* again keeps its row as it was.
C31_RowsOnlyAdded ==
    [][LET kept(old, new) == /\ Len(old) <= Len(new)
                             /\ \A i \in 1..Len(old) : new[i] = old[i]
       IN  /\ kept(graphs, graphs')
           /\ kept(graphs_children, graphs_children')
           /\ kept(logs_script, logs_script')
           /\ (ProcessFile /\ \E i \in 1..Len(graphs_children) :
                 graphs_children[i].original = updated_files[pos].file_path)
                => \A i \in 1..Len(graphs_children) :
                      (graphs_children[i].original = updated_files[pos].file_path)
                         => graphs_children'[i] = graphs_children[i]]_vars

\* a recorded file was modified and processed again, the dedup check
\* skipped it and its one row is still the one written before; an error
\* was logged in between
C31_Witness ==
    /\ runs["a/x.png"].outcome = "SKIPPED_DUPLICATE"
    /\ Len(graphs_children) = 1
    /\ graphs_children[1].original = "a/x.png"
    /\ Len(logs_script) >= 1
    /\ Len(graphs) >= 1

\* C32: when the lookups of two concurrent passes for the same path both
\* returned 'not registered' and no store call of either pass failed, both
\* inserts are done: the directory has two rows with different identifiers
\* and the file has two rows.
C32_CheckThenInsertRace ==
    "pass" \in DOMAIN output =>
      \A p, q \in Passes :
        (p # q /\ output.pass[p].nf = 0 /\ output.pass[q].nf = 0) =>
          /\ ( /\ output.pass[p].pc \notin {"start", "dir_checked"}
               /\ output.pass[q].pc \notin {"start", "dir_checked"}
               /\ output.pass[p].dir_found = NoId
               /\ output.pass[q].dir_found = NoId )
             => \E i, j \in 1..Len(output.graphs) :
                   /\ output.graphs[i].path = dirname(RaceFile)
                   /\ output.graphs[j].path = dirname(RaceFile)
                   /\ output.graphs[i].id = output.pass[p].dir_id
                   /\ output.graphs[j].id = output.pass[q].dir_id
                   /\ output.graphs[i].id # output.graphs[j].id
          /\ ( /\ output.pass[p].pc \in {"saved", "skipped"}
               /\ output.pass[q].pc \in {"saved", "skipped"}
               /\ ~output.pass[p].file_found
               /\ ~output.pass[q].file_found )
             => \E i, j \in 1..Len(output.graphs_children) :
                   /\ i # j
                   /\ output.graphs_children[i].original = RaceFile
                   /\ output.graphs_children[j].original = RaceFile

\* both passes looked the directory and the file up before the other one
\* inserted, no call failed, and each table holds two rows for the path
C32_Witness ==
    /\ "pass" \in DOMAIN output
    /\ \A p \in Passes : /\ output.pass[p].pc = "saved"
                         /\ output.pass[p].nf = 0
                         /\ output.pass[p].dir_found = NoId
                         /\ ~output.pass[p].file_found
    /\ Len(output.graphs) = 2
    /\ output.graphs[1].path = output.graphs[2].path
    /\ output.graphs[1].id # output.graphs[2].id
    /\ Len(output.graphs_children) = 2
    /\ output.graphs_children[1].original = output.graphs_children[2].original

\* C33: the identifier that ensure_directory_registered returned names a
\* row of graphs, and so does the graph_id of every row of graphs_children.
C33_DirectoryIdReferencesRow ==
    /\ \A c \in 1..Len(dir_calls) :
          \E i \in 1..Len(graphs) : graphs[i].id = dir_calls[c].id
    /\ \A r \in 1..Len(graphs_children) :
          \E i \in 1..Len(graphs) : graphs[i].id = graphs_children[r].graph_id

\* C34: when preview caught an exception and the save_to_database call of
\* its except branch went through, the call added a row to logs_script and
\* none to graphs_children, whatever the message of the exception.
C34_CaughtErrorGoesToErrorLog ==
    [][(ProcessFile
          /\ runs'[updated_files[pos].file_path].outcome \in {"FAILED", "MISFILED"})
         => /\ graphs_children' = graphs_children
            /\ Len(logs_script') > Len(logs_script)]_vars

\* C35: within a run of monitor_folder a directory stays in the seen set;
\* a walk that completes puts every sub-directory into it, registered or
\* found empty, and adds no graphs row for a directory that was in it; a
\* seen directory gets a graphs row only from the processing of a file
\* that lies directly in it.
C35_DirectoryConsideredOnce ==
    [][LET rows(gr, d) == {i \in 1..Len(gr) : gr[i].path = d}
       IN  /\ (\E force \in BOOLEAN : Start(force))
                \/ seen_directories \subseteq seen_directories'
           /\ (Walk /\ pc' # "crashed") => SubDirs \subseteq seen_directories'
           /\ \A d \in seen_directories :
                 rows(graphs', d) # rows(graphs, d)
                    => /\ ProcessFile
                       /\ dirname(updated_files[pos].file_path) = d]_vars

\* the directory a was empty when the forced start walked it and got no
\* row; the only call that registered it is the one made for the file
\* that appeared in it later
C35_Witness ==
    /\ events = 1
    /\ pc = "sleep"
    /\ "a" \in seen_directories
    /\ runs["a/x.png"].outcome = "RECORDED"
    /\ graphs = << [id |-> 1, path |-> "a"] >>
    /\ dir_calls = << [path |-> "a", id |-> 1] >>

\* C36: the walk of a pass reads, for each non-hidden file it sees, the
\* value that the watch state holds when the pass is complete: the value
\* is emitted, or it is in the watch state already.  Within a run the
\* watch state changes only with the last emitted file of a pass, it then
\* takes the emitted values and keeps every other entry, and no entry is
\* removed.
C36_WatchStateAfterPass ==
    [][LET start == \E force \in BOOLEAN : Start(force)
           last == ProcessFile /\ pos = Len(updated_files) /\ pc' = "sleep"
       IN  /\ files_dict' # files_dict => (start \/ last)
           /\ start \/ DOMAIN files_dict \subseteq DOMAIN files_dict'
           /\ (Walk /\ pc' # "crashed") =>
                \A f \in Files : (exists(f) /\ ~startswith_dot(f)) =>
                   LET read == IF mtime'[f] = 0 THEN None ELSE mtime[f]
                   IN  \/ \E i \in 1..Len(updated_files') :
                              updated_files'[i] = [file_path |-> f, mt |-> read]
                       \/ f \in DOMAIN files_dict /\ files_dict[f] = read
           /\ last =>
                /\ \A i \in 1..Len(updated_files) :
                      files_dict'[updated_files[i].file_path] = updated_files[i].mt
                /\ \A f \in DOMAIN files_dict :
                      (\A i \in 1..Len(updated_files) :
                          updated_files[i].file_path # f)
                        => files_dict'[f] = files_dict[f]]_vars

\* a pass is complete whose walk found a/x.png gone when it read its
\* mtime: the watch state holds the not-found marker for it, the file has
\* not come back, and the entry of the other file is the one of the
\* baseline
C36_Witness ==
    /\ pc = "sleep"
    /\ DOMAIN files_dict = {"a/x.png", "a/s.1/y.tif"}
    /\ files_dict["a/x.png"] = None
    /\ files_dict["a/s.1/y.tif"] = 1
    /\ mtime["a/x.png"] = 0
    /\ runs["a/x.png"].outcome # "NONE"
    /\ runs["a/s.1/y.tif"].outcome = "NONE"

\* C37: once main() has written the start record and no exception has
\* reached its except clause (a signal has no handler in main()), no
\* shutdown record is written.
C37_ShutdownOnlyOnSignalOrException ==
    ( /\ \E i \in 1..Len(logs_script) : logs_script[i].log = "Script is running."
      /\ main_pc \notin {"handled", "escaped"} )
       => \A i \in 1..Len(logs_script) : logs_script[i].log # "Script down."

\* C38: a client id that has an open WebSocket connection is in
\* connected_clients, and the connection registered for it is open.
C38_RegistryHoldsOpenConnection ==
    \A c \in Clients :
      (\E w \in DOMAIN handlers : handlers[w].client = c /\ handlers[w].open)
        => /\ c \in DOMAIN connected_clients
           /\ connected_clients[c] \in DOMAIN handlers
           /\ handlers[connected_clients[c]].open

\* C39: the ZIP thread is started only for a /download request that is
\* answered 201: a request with another answer leaves no thread, no ZIP
\* file and no notification.
C39_ZipThreadOnlyAfter201 ==
    /\ \A t \in threads : t.status = 201
    /\ (exchange # << >> /\ exchange[1].thread)
          => exchange[1].statuses = <<201>>

\* C40: a file that /download_exec served or removed is one that
\* create_zip_from_files made; a file is removed only when it was streamed
\* to the end; a path that is not on disk, as the one of a bundle that was
\* removed, is answered 404.
C40_DownloadExecOnlyBundles ==
    "last" \in DOMAIN output =>
      LET x == output.last
      IN  /\ (x.existed /\ 200 \in Range(x.statuses))
                => x.request.path \in output.bundles
          /\ x.removed => (x.streamed /\ x.request.path \in output.bundles)
          /\ ( /\ unauthorized(x.request.header) = {}
               /\ x.request.path # NoParam
               /\ ~x.existed )
                => x.statuses = <<404>>

====
